---- MODULE Spec2Model ----
(***************************************************************************)
(* shellmcp: YAML configuration models (models.py), parser (parser.py),    *)
(* server generator (generator.py) and direct runner (runner.py).          *)
(*                                                                         *)
(* Optional[T] is encoded as a tuple: None is << >>, a value v is <<v>>.   *)
(* A key of an input dict that is not supplied is << >> as well.           *)
(* Text is a sequence of characters, so that regex matching and template   *)
(* rendering are computed and not assumed.                                 *)
(***************************************************************************)
EXTENDS Integers, Sequences, FiniteSets, TLC

\* ---------------------------------------------------------------- bounds
MaxLen == 1
MaxArgs == 2

\* ------------------------------------------------------------ vocabulary
None == << >>
Some(x) == <<x>>

Chars == {"a", "b"}
ArgNames == {"x", "y"}
RefNames == {"R1", "R2"}
ToolNames == {"t1", "t2"}
Types == {"string", "number", "boolean", "array"}

\* all texts over Chars of length 0..MaxLen
Texts == UNION {[1..n -> Chars] : n \in 0..MaxLen}

\* A regular expression of the shape [cls]+ or ^[cls]+$ ; an empty class
\* "[]" does not compile.
Patterns == [cls : SUBSET Chars, anchored : BOOLEAN]

\* re.compile(p) succeeds
re_compile_ok(p) == p.cls # {}

\* re.match(p, s): the match is anchored at the start of s only; "$" anchors
\* the end.
re_match(p, s) ==
    /\ Len(s) >= 1
    /\ s[1] \in p.cls
    /\ p.anchored => \A i \in 1..Len(s) : s[i] \in p.cls

ChoiceLists == {<<<<"a">>>>, <<<<"a">>, <<"b">>>>}

SeqToSet(s) == {s[i] : i \in 1..Len(s)}

VARIABLES
    ta,             \* outcome of the last ToolArgument(...) construction
    parser_config,  \* YMLParser.config
    load,           \* outcome of the last YMLParser.load_from_dict call
    config,         \* a YMLConfig instance whose arguments are resolved
    config0,        \* that instance as it was built
    first,          \* per tool: the first list get_resolved_arguments returned
    last,           \* per tool: the latest list get_resolved_arguments returned
    calls,          \* per tool: how often get_resolved_arguments was called
    tool,           \* the tool a handler is registered / generated for
    call,           \* the invocation in progress: arguments and command outcome
    h               \* per output mode: the handler's progress

VARIABLES
    yaml_data,      \* the configuration document being edited and compiled
    diagnostics,    \* what the language server published for it
    compiled,       \* outcome of compiling it (YMLParser.load_from_string)
    mcp             \* the handlers an MCPRunner registered for it

VARIABLE rt         \* a tool handler that executes its command with retries

VARIABLES
    environ,        \* os.environ of the process
    servers,        \* per server: its configuration and whether it was built
    inv             \* per thread: the tool invocation it is running

envVars == <<environ, servers, inv>>

VARIABLES
    resource,       \* the resource a handler is registered / generated for
    rcall,          \* the read in progress: arguments, command outcome, file
    rh              \* per output mode: what the resource handler did

resVars == <<resource, rcall, rh>>

VARIABLES
    fs,             \* the output files a `generate` run has written
    gen,            \* outcome of the last `generate` run
    lint,           \* outcome of the last `validate` run and its report
    tv,             \* a template and the variables extracted from it
    mcp_config,     \* the MCP configuration file of Amazon Q
    inst,           \* outcome of the last installer call
    registry,       \* the handlers registered for the tools of a configuration
    answer          \* what the last query method of the parser returned

genVars == <<fs, gen>>
instVars == <<mcp_config, inst>>
cliVars == <<genVars, lint, tv, instVars, registry, answer>>

docVars == <<yaml_data, diagnostics, compiled, mcp>>
extVars == <<docVars, rt, envVars, resVars, cliVars>>

vars == <<ta, parser_config, load, config, config0, first, last, calls, tool, call, h, extVars>>


\* ================================================================ models.py
\* The keyword arguments a ToolArgument is constructed from.
RawToolArguments ==
    [name : {None} \cup {Some(n) : n \in ArgNames},
     help : {Some("h")},
     type : {None, Some("string"), Some("number"), Some("bogus")},
     default : {None, Some(<<"a">>)},
     choices : {None, Some(<<<<"a">>, <<"b">>>>)},
     pattern : {None, Some([cls |-> {"a"}, anchored |-> TRUE]),
                Some([cls |-> {}, anchored |-> FALSE])},
     ref : {None} \cup {Some(r) : r \in RefNames}]

\* An error of a ValidationError: the location path, the message, and the names
\* the message quotes.  The error text shows the path and the message.
NamedBy(e) == SeqToSet(e.loc) \cup e.quoted

\* @validator('pattern'): the errors it raises for a supplied pattern
validate_pattern(v) ==
    IF v # None /\ ~re_compile_ok(v[1])
    THEN <<[loc |-> <<"pattern">>, msg |-> "Invalid regex pattern", quoted |-> {}]>>
    ELSE << >>

\* The dict `values` the 'ref' validator receives: every field declared before
\* ref that passed validation, a field that was not supplied holding its
\* declared default (type: "string", the Optional fields: None).
\* The result maps a field name to Some(v) when the field is in values, v
\* being None or Some(value).
ValuesBeforeRef(raw) ==
    [type |-> IF raw.type = None THEN Some(Some("string"))
              ELSE IF raw.type[1] \in Types THEN Some(raw.type) ELSE None,
     default |-> Some(raw.default),
     choices |-> Some(raw.choices),
     pattern |-> IF validate_pattern(raw.pattern) = << >> THEN Some(raw.pattern) ELSE None]

conflicting_fields == <<"type", "default", "choices", "pattern">>

\* `field in values and values[field] is not None`
IsConflict(values, field) ==
    /\ values[field] # None
    /\ values[field][1] # None

\* @validator('ref'): raises for the first conflicting field in list order
validate_ref_exclusive(v, values) ==
    IF v = None THEN << >>
    ELSE LET hits == {i \in 1..Len(conflicting_fields) : IsConflict(values, conflicting_fields[i])}
         IN IF hits = {} THEN << >>
            ELSE LET i == CHOOSE k \in hits : \A j \in hits : k <= j
                 IN <<[loc |-> <<"ref">>, msg |-> "Cannot use 'ref' with",
                       quoted |-> {"ref", conflicting_fields[i]}]>>

\* ToolArgument(**raw): field validation in declaration order; the errors of all
\* fields are collected and raised together as one ValidationError.
ToolArgument(raw) ==
    LET eName == IF raw.name = None
                 THEN <<[loc |-> <<"name">>, msg |-> "field required", quoted |-> {}]>> ELSE << >>
        eHelp == IF raw.help = None
                 THEN <<[loc |-> <<"help">>, msg |-> "field required", quoted |-> {}]>> ELSE << >>
        eType == IF raw.type # None /\ raw.type[1] \notin Types
                 THEN <<[loc |-> <<"type">>, msg |-> "unexpected value", quoted |-> {}]>> ELSE << >>
        ePat == validate_pattern(raw.pattern)
        eRef == validate_ref_exclusive(raw.ref, ValuesBeforeRef(raw))
        errors == eName \o eHelp \o eType \o ePat \o eRef
    IN IF errors # << >>
       THEN [ok |-> FALSE, obj |-> None, errors |-> errors]
       ELSE [ok |-> TRUE,
             obj |-> Some([name |-> raw.name[1], help |-> raw.help[1],
                           type |-> IF raw.type = None THEN "string" ELSE raw.type[1],
                           default |-> raw.default, choices |-> raw.choices,
                           pattern |-> raw.pattern, ref |-> raw.ref]),
             errors |-> << >>]

\* ArgumentDefinition(**raw): only the pattern has a validator
ArgumentDefinition(raw) ==
    LET errors == validate_pattern(raw.pattern)
    IN IF errors # << >>
       THEN [ok |-> FALSE, obj |-> None, errors |-> errors]
       ELSE [ok |-> TRUE,
             obj |-> Some([help |-> raw.help[1],
                           type |-> IF raw.type = None THEN "string" ELSE raw.type[1],
                           default |-> raw.default, choices |-> raw.choices,
                           pattern |-> raw.pattern]),
             errors |-> << >>]

\* dicts keep insertion order; the tools of a configuration are visited in
\* this order
ToolOrder == <<"t1", "t2">>

Prefixed(path, errors) ==
    [i \in 1..Len(errors) |-> [errors[i] EXCEPT !.loc = path \o @]]

RECURSIVE Flatten(_)
Flatten(ss) == IF ss = << >> THEN << >> ELSE Head(ss) \o Flatten(Tail(ss))

\* `if tool.args:` -- the list is neither None nor empty
HasArgs(t) == t.args # None /\ t.args[1] # << >>

\* The tool names of a tools field (None or a dict), in dict order
ToolsOf(tools) ==
    IF tools = None THEN << >>
    ELSE SelectSeq(ToolOrder, LAMBDA n : n \in DOMAIN tools[1])

\* @root_validator validate_argument_references.  values.args and
\* values.tools are None when the key is absent from `values` (the field
\* failed validation), otherwise Some(field value).  values.get('args', {})
\* is the field value, which is None when there is no args section: the
\* membership test `arg.ref not in args` then raises TypeError.
validate_argument_references(values) ==
    LET args == IF values.args = None THEN Some(<< >>) ELSE values.args[1]
        tools == IF values.tools = None THEN Some(<< >>) ELSE values.tools[1]
        names == ToolsOf(tools)
        Bad(n, i) ==
            LET arg == tools[1][n].args[1][i]
            IN arg.ref # None /\ (args = None \/ arg.ref[1] \notin DOMAIN args[1])
        ErrorsOf(n) ==
            IF ~HasArgs(tools[1][n]) THEN << >>
            ELSE LET as == tools[1][n].args[1]
                     bad == {i \in 1..Len(as) : Bad(n, i)}
                 IN IF bad = {} THEN << >>
                    ELSE LET i == CHOOSE k \in bad : \A j \in bad : k <= j
                         IN IF args = None
                            THEN <<[loc |-> <<"__root__">>,
                                    msg |-> "argument of type 'NoneType' is not iterable",
                                    quoted |-> {}]>>
                            ELSE <<[loc |-> <<"__root__">>,
                                    msg |-> "references undefined argument",
                                    quoted |-> {n, as[i].ref[1]}]>>
        all == Flatten([k \in 1..Len(names) |-> ErrorsOf(names[k])])
    IN IF all = << >> THEN << >> ELSE <<Head(all)>>

\* a list holds the same name twice
HasDuplicates(s) == \E i, j \in 1..Len(s) : i < j /\ s[i] = s[j]

\* (variant: argument names are not compared)
validate_unique_names_ToolsOnly(values) == << >>

\* @root_validator validate_unique_names
validate_unique_names(values) ==
    LET tools == IF values.tools = None THEN Some(<< >>) ELSE values.tools[1]
        names == ToolsOf(tools)
        ErrorsOf(n) ==
            IF ~HasArgs(tools[1][n]) THEN << >>
            ELSE LET as == tools[1][n].args[1]
                     arg_names == [i \in 1..Len(as) |-> as[i].name]
                 IN IF HasDuplicates(arg_names)
                    THEN <<[loc |-> <<"__root__">>,
                            msg |-> "Argument names must be unique within tool",
                            quoted |-> {n}]>>
                    ELSE << >>
        all == Flatten([k \in 1..Len(names) |-> ErrorsOf(names[k])])
    IN IF all = << >> THEN << >> ELSE <<Head(all)>>

\* Both root validators run, also after a field failed; each adds its error.
RootValidators(values) ==
    validate_argument_references(values) \o validate_unique_names(values)

\* Field validation of `args: Optional[Dict[str, ArgumentDefinition]]`
ArgsField(raw) ==
    IF raw = None THEN [ok |-> TRUE, obj |-> None, errors |-> << >>]
    ELSE LET keys == SelectSeq(<<"R1", "R2">>, LAMBDA r : r \in DOMAIN raw[1])
             errors == Flatten([k \in 1..Len(keys) |->
                          Prefixed(<<"args", keys[k]>>, ArgumentDefinition(raw[1][keys[k]]).errors)])
         IN IF errors # << >> THEN [ok |-> FALSE, obj |-> None, errors |-> errors]
            ELSE [ok |-> TRUE,
                  obj |-> Some([r \in DOMAIN raw[1] |-> ArgumentDefinition(raw[1][r]).obj[1]]),
                  errors |-> << >>]

\* ToolConfig(**raw): its args list is a list of ToolArgument
ToolConfig(raw) ==
    IF raw.args = None THEN [ok |-> TRUE, obj |-> Some([args |-> None]), errors |-> << >>]
    ELSE LET as == raw.args[1]
             built == [i \in 1..Len(as) |-> ToolArgument(as[i])]
             errors == Flatten([i \in 1..Len(as) |->
                          Prefixed(<<"args", ToString(i - 1)>>, built[i].errors)])
         IN IF errors # << >> THEN [ok |-> FALSE, obj |-> None, errors |-> errors]
            ELSE [ok |-> TRUE,
                  obj |-> Some([args |-> Some([i \in 1..Len(as) |-> built[i].obj[1]])]),
                  errors |-> << >>]

\* Field validation of `tools: Optional[Dict[str, ToolConfig]]`
ToolsField(raw) ==
    IF raw = None THEN [ok |-> TRUE, obj |-> None, errors |-> << >>]
    ELSE LET names == ToolsOf(raw)
             errors == Flatten([k \in 1..Len(names) |->
                          Prefixed(<<"tools", names[k]>>, ToolConfig(raw[1][names[k]]).errors)])
         IN IF errors # << >> THEN [ok |-> FALSE, obj |-> None, errors |-> errors]
            ELSE [ok |-> TRUE,
                  obj |-> Some([n \in DOMAIN raw[1] |-> ToolConfig(raw[1][n]).obj[1]]),
                  errors |-> << >>]

\* YMLConfig(**data): the fields, then the root validators over the fields
\* that passed.
YMLConfig(data) ==
    LET a == ArgsField(data.args)
        t == ToolsField(data.tools)
        values == [args |-> IF a.ok THEN Some(a.obj) ELSE None,
                   tools |-> IF t.ok THEN Some(t.obj) ELSE None]
        errors == a.errors \o t.errors \o RootValidators(values)
    IN IF errors # << >>
       THEN [ok |-> FALSE, obj |-> None, errors |-> errors]
       ELSE [ok |-> TRUE, obj |-> Some([args |-> a.obj, tools |-> t.obj]), errors |-> << >>]

\* (variant: the resolved argument keeps the help text of the declaration)
ResolveArgument_OwnHelp(self, arg) ==
    IF arg.ref # None
    THEN IF self.args = None \/ DOMAIN self.args[1] = {} \/ arg.ref[1] \notin DOMAIN self.args[1]
         THEN [raised |-> TRUE, arg |-> None]
         ELSE LET ref_arg == self.args[1][arg.ref[1]]
                  made == ToolArgument([name |-> Some(arg.name), help |-> Some(arg.help),
                                        type |-> Some(ref_arg.type), default |-> ref_arg.default,
                                        choices |-> ref_arg.choices,
                                        pattern |-> ref_arg.pattern, ref |-> None])
              IN [raised |-> ~made.ok, arg |-> made.obj]
    ELSE [raised |-> FALSE, arg |-> Some(arg)]

\* The loop body of get_resolved_arguments: the resolved argument, or raised
\* when the reference is not in the args section.
ResolveArgument(self, arg) ==
    IF arg.ref # None
    THEN IF self.args = None \/ DOMAIN self.args[1] = {} \/ arg.ref[1] \notin DOMAIN self.args[1]
         THEN [raised |-> TRUE, arg |-> None]
         ELSE LET ref_arg == self.args[1][arg.ref[1]]
                  made == ToolArgument([name |-> Some(arg.name), help |-> Some(ref_arg.help),
                                        type |-> Some(ref_arg.type), default |-> ref_arg.default,
                                        choices |-> ref_arg.choices,
                                        pattern |-> ref_arg.pattern, ref |-> None])
              IN [raised |-> ~made.ok, arg |-> made.obj]
    ELSE [raised |-> FALSE, arg |-> Some(arg)]

\* What YMLConfig.get_resolved_arguments(tool_name) returns or raises
ResolvedArguments(self, tool_name) ==
    IF self.tools = None \/ DOMAIN self.tools[1] = {} \/ tool_name \notin DOMAIN self.tools[1]
    THEN [raised |-> FALSE, list |-> << >>]
    ELSE LET t == self.tools[1][tool_name]
         IN IF ~HasArgs(t) THEN [raised |-> FALSE, list |-> << >>]
            ELSE LET as == t.args[1]
                     rs == [i \in 1..Len(as) |-> ResolveArgument(self, as[i])]
                 IN IF \E i \in 1..Len(as) : rs[i].raised
                    THEN [raised |-> TRUE, list |-> << >>]
                    ELSE [raised |-> FALSE, list |-> [i \in 1..Len(as) |-> rs[i].arg[1]]]

\* ------------------------------------------------------- input domains
MaxLoads == 2
MaxCalls == 2

PatA == [cls |-> {"a"}, anchored |-> TRUE]

\* tool arguments as a configuration file gives them
LoadRawArguments ==
    [name : {Some(n) : n \in ArgNames}, help : {Some("h")}, type : {None},
     default : {None}, choices : {None}, pattern : {None},
     ref : {None} \cup {Some(r) : r \in RefNames}]

RawDefinition ==
    [help |-> Some("hR"), type |-> None, default |-> Some(<<"a">>),
     choices |-> None, pattern |-> Some(PatA)]

RawArgsSections == {None, Some([r \in {"R1"} |-> RawDefinition])}

SeqsUpTo(S, n) == UNION {[1..k -> S] : k \in 0..n}

\* the argument lists of the first tool: at most one argument has a ref
RawArgumentLists ==
    {l \in SeqsUpTo(LoadRawArguments, MaxArgs) :
        Cardinality({i \in 1..Len(l) : l[i].ref # None}) <= 1}

RawTools ==
    LET lists == {None} \cup {Some(l) : l \in RawArgumentLists}
        short == {None} \cup {Some(l) : l \in SeqsUpTo(LoadRawArguments, 1)}
        second == {Some(<<[name |-> Some("x"), help |-> Some("h"), type |-> None,
                           default |-> None, choices |-> None, pattern |-> None,
                           ref |-> Some("R2")]>>)}
    IN {None}
       \cup {Some([n \in {"t1"} |-> [args |-> l]]) : l \in lists}
       \cup {Some([n \in {"t1", "t2"} |-> IF n = "t1" THEN [args |-> l] ELSE [args |-> m]]) :
                l \in short, m \in second}

RawConfigs == [args : RawArgsSections, tools : RawTools]

\* YMLConfig instances whose arguments get resolved
DefR1 == [help |-> "hR", type |-> "string", default |-> Some(<<"a">>),
          choices |-> None, pattern |-> Some(PatA)]
DefR2 == [help |-> "hR", type |-> "number", default |-> None,
          choices |-> Some(<<<<"a">>, <<"b">>>>), pattern |-> None]

DeclaredArguments ==
    [name : ArgNames, help : {"h"}, type : {"string"},
     default : {None, Some(<<"b">>)}, choices : {None},
     pattern : {None, Some(PatA)}, ref : {None}]
    \cup
    [name : ArgNames, help : {"h"}, type : {"string"},
     default : {None}, choices : {None}, pattern : {None},
     ref : {Some(r) : r \in RefNames}]

ConfigInstances ==
    LET lists == {None} \cup {Some(l) : l \in SeqsUpTo(DeclaredArguments, MaxArgs)}
        second == {None,
                   Some(<<[name |-> "x", help |-> "h", type |-> "string", default |-> None,
                           choices |-> None, pattern |-> None, ref |-> Some("R1")]>>),
                   Some(<<[name |-> "y", help |-> "h", type |-> "string", default |-> Some(<<"b">>),
                           choices |-> None, pattern |-> None, ref |-> None]>>)}
        sections == {None, Some([r \in {"R1"} |-> DefR1]),
                     Some([r \in {"R1", "R2"} |-> IF r = "R1" THEN DefR1 ELSE DefR2])}
        tools == {Some([n \in {"t1"} |-> [args |-> l]]) : l \in lists}
                 \cup {Some([n \in {"t1", "t2"} |-> IF n = "t1" THEN [args |-> l] ELSE [args |-> m]]) :
                          l \in lists, m \in second}
    IN {c \in [args : sections, tools : tools] :
           RootValidators([args |-> Some(c.args), tools |-> Some(c.tools)]) = << >>}

\* --------------------------------------------------------- idle components
NoConstruction == [raw |-> None, ok |-> FALSE, obj |-> None, errors |-> << >>]
NoLoad == [n |-> 0, data |-> None, ok |-> FALSE, errors |-> << >>, raised |-> None]
NoCalls == [t \in ToolNames |-> 0]
NoResults == [t \in ToolNames |-> None]

ArgIdle == ta = NoConstruction
LoadIdle == parser_config = None /\ load = NoLoad
ResolveIdle == config = None /\ config0 = None /\ first = NoResults /\ last = NoResults /\ calls = NoCalls
HandlersIdle == tool = None /\ call = None /\ h = None
NoServer == [built |-> FALSE, handlers |-> {}]
DocIdle == yaml_data = None /\ diagnostics = None /\ compiled = None /\ mcp = NoServer
NoRetry == [pc |-> "idle", max_retries |-> 0, timeout |-> 0, script |-> << >>,
            args |-> None, validates |-> 0, renders |-> 0, cmd |-> None,
            attempt |-> 0, execs |-> 0, sleeps |-> 0, results |-> << >>, result |-> None]
RetryIdle == rt = NoRetry
EnvIdle == environ = << >> /\ servers = << >> /\ inv = << >>
ResIdle == resource = None /\ rcall = None /\ rh = None
NoGenerate == [n |-> 0, data |-> None, exit |-> None]
GenIdle == fs = << >> /\ gen = NoGenerate
LintIdle == lint = None
TvIdle == tv = None
InstIdle == mcp_config = << >> /\ inst = None
RegIdle == registry = None
AnswerIdle == answer = None
CliIdle == GenIdle /\ LintIdle /\ TvIdle /\ InstIdle /\ RegIdle /\ AnswerIdle
ExtIdle == DocIdle /\ RetryIdle /\ EnvIdle /\ ResIdle /\ CliIdle

\* ------------------------------------------------------------ ToolArgument
\* ToolArgument(**raw) is called
NewToolArgument(raw) ==
    /\ ta' = [raw |-> Some(raw)] @@ ToolArgument(raw)
    /\ UNCHANGED <<parser_config, load, config, config0, first, last, calls, tool, call, h>>
    /\ UNCHANGED extVars

InitArg == ArgIdle /\ LoadIdle /\ ResolveIdle /\ HandlersIdle /\ ExtIdle
NextArg == \E raw \in RawToolArguments : NewToolArgument(raw)
SpecArg == InitArg /\ [][NextArg]_vars

\* --------------------------------------------------------------- parser.py
\* (variant: a failed load clears self.config)
load_from_dict_Reset(data) ==
    /\ load.n < MaxLoads
    /\ LET built == YMLConfig(data)
       IN /\ parser_config' = built.obj
          /\ load' = [n |-> load.n + 1, data |-> Some(data), ok |-> built.ok,
                      errors |-> built.errors,
                      raised |-> IF built.ok THEN None ELSE Some("ValueError")]
    /\ UNCHANGED <<ta, config, config0, first, last, calls, tool, call, h>>
    /\ UNCHANGED extVars

\* YMLParser.load_from_dict(data): self.config is assigned only when the
\* construction succeeded; a failure is re-raised as ValueError carrying the
\* text of the validation error.
load_from_dict(data) ==
    /\ load.n < MaxLoads
    /\ LET built == YMLConfig(data)
       IN /\ parser_config' = IF built.ok THEN built.obj ELSE parser_config
          /\ load' = [n |-> load.n + 1, data |-> Some(data), ok |-> built.ok,
                      errors |-> built.errors,
                      raised |-> IF built.ok THEN None ELSE Some("ValueError")]
    /\ UNCHANGED <<ta, config, config0, first, last, calls, tool, call, h>>
    /\ UNCHANGED extVars

InitLoad == ArgIdle /\ LoadIdle /\ ResolveIdle /\ HandlersIdle /\ ExtIdle
NextLoad == load.n < MaxLoads /\ \E data \in RawConfigs : load_from_dict(data)
SpecLoad == InitLoad /\ [][NextLoad]_vars

\* ------------------------------------------------- get_resolved_arguments
\* (variant: the resolved list is stored back into the tool)
get_resolved_arguments_in_place(tool_name) ==
    /\ calls[tool_name] < MaxCalls
    /\ LET r == ResolvedArguments(config[1], tool_name)
       IN /\ last' = [last EXCEPT ![tool_name] = Some(r)]
          /\ first' = [first EXCEPT ![tool_name] = IF @ = None THEN Some(r) ELSE @]
          /\ config' = IF r.raised \/ r.list = << >> THEN config
                       ELSE Some([config[1] EXCEPT !.tools[1][tool_name].args = Some(r.list)])
    /\ calls' = [calls EXCEPT ![tool_name] = @ + 1]
    /\ UNCHANGED config0
    /\ UNCHANGED <<ta, parser_config, load, tool, call, h>>
    /\ UNCHANGED extVars

\* config.get_resolved_arguments(tool_name) is called; it assigns nothing to
\* self.
get_resolved_arguments(tool_name) ==
    /\ calls[tool_name] < MaxCalls
    /\ LET r == ResolvedArguments(config[1], tool_name)
       IN /\ last' = [last EXCEPT ![tool_name] = Some(r)]
          /\ first' = [first EXCEPT ![tool_name] = IF @ = None THEN Some(r) ELSE @]
    /\ calls' = [calls EXCEPT ![tool_name] = @ + 1]
    /\ UNCHANGED <<config, config0>>
    /\ UNCHANGED <<ta, parser_config, load, tool, call, h>>
    /\ UNCHANGED extVars

InitResolve ==
    /\ ArgIdle /\ LoadIdle /\ HandlersIdle /\ ExtIdle
    /\ config \in {Some(c) : c \in ConfigInstances}
    /\ config0 = config
    /\ first = NoResults /\ last = NoResults /\ calls = NoCalls
NextResolve == \E t \in ToolNames : get_resolved_arguments(t)
SpecResolve == InitResolve /\ [][NextResolve]_vars

\* ============================================== generator.py and runner.py
Modes == {"generated", "runner"}

\* A command template: literal text and {{ variable }} interpolations; ok is
\* FALSE for a text the template engine rejects.
Lit(t) == [kind |-> "lit", v |-> t]
Var(n) == [kind |-> "var", v |-> <<n>>]

CmdTemplates ==
    {[ok |-> TRUE, parts |-> <<Lit(<<"c">>)>>],
     [ok |-> TRUE, parts |-> <<Lit(<<"c">>), Var("x")>>],
     [ok |-> TRUE, parts |-> <<Lit(<<"c">>), Var("x"), Var("y")>>],
     [ok |-> FALSE, parts |-> <<Lit(<<"c">>), Var("x")>>]}

\* str(value) of an argument value: a text, or None
str(v) == IF v = None THEN <<"N", "o", "n", "e">> ELSE v[1]

\* The text an exception or a process writes: what it says, the argument and
\* pattern it names and the values it shows; prefix is the tool name of an
\* "Error in <tool>: " the handler puts in front.
Message(text, arg, shows, pattern) ==
    [prefix |-> None, text |-> text, arg |-> arg, shows |-> shows, pattern |-> pattern]
NoMessage == Message("", None, << >>, None)

\* render_template(template_str, **kwargs): the rendered text, or the
\* ValueError it raises.  An undefined variable renders as the empty text.
RECURSIVE RenderParts(_, _)
RenderParts(parts, context) ==
    IF parts = << >> THEN << >>
    ELSE LET p == Head(parts)
             piece == IF p.kind = "lit" THEN p.v
                      ELSE IF p.v[1] \in DOMAIN context THEN str(context[p.v[1]]) ELSE << >>
         IN piece \o RenderParts(Tail(parts), context)

render_template(template, context) ==
    IF template.ok
    THEN [raised |-> None, text |-> RenderParts(template.parts, context)]
    ELSE [raised |-> Some(Message("Template rendering error", None, << >>, None)), text |-> << >>]

\* What running a command does: it exits with a code, runs past the timeout,
\* or cannot be started.
ExitCodes == {0, 1}
Outcomes == {[kind |-> "exit", code |-> c] : c \in ExitCodes}
            \cup {[kind |-> "timeout", code |-> 0], [kind |-> "oserror", code |-> 0]}

\* (variant: the timeout result carries the partial output under another key)
execute_command_PartialOutput(cmd, outcome) ==
    IF outcome.kind = "exit"
    THEN [success |-> outcome.code = 0, stdout |-> cmd,
          stderr |-> NoMessage, returncode |-> outcome.code]
    ELSE IF outcome.kind = "timeout"
    THEN [success |-> FALSE, output |-> cmd,
          stderr |-> Message("Command timed out after 5 minutes", None, << >>, None),
          returncode |-> -1]
    ELSE [success |-> FALSE, stdout |-> << >>,
          stderr |-> Message("OSError", None, << >>, None), returncode |-> -1]

\* execute_command(cmd, env_vars): the command's output is its own text
execute_command(cmd, outcome) ==
    IF outcome.kind = "exit"
    THEN [success |-> outcome.code = 0, stdout |-> cmd,
          stderr |-> NoMessage, returncode |-> outcome.code]
    ELSE IF outcome.kind = "timeout"
    THEN [success |-> FALSE, stdout |-> << >>,
          stderr |-> Message("Command timed out after 5 minutes", None, << >>, None),
          returncode |-> -1]
    ELSE [success |-> FALSE, stdout |-> << >>,
          stderr |-> Message("OSError", None, << >>, None), returncode |-> -1]

\* (variant: the boundary lets the exception through)
ToolFailure_Reraise(tool_name, e) == [raised |-> TRUE, result |-> None]

\* The `except Exception as e` boundary of a tool handler
ToolFailure(tool_name, e) ==
    [raised |-> FALSE,
     result |-> Some([success |-> FALSE, stdout |-> << >>,
                      stderr |-> [e EXCEPT !.prefix = Some(tool_name)],
                      returncode |-> -1])]

HasDefault(arg) == arg.default # None
NamesOf(args) == [i \in 1..Len(args) |-> args[i].name]

\* The parameter list of the emitted handler: params_without_defaults +
\* params_with_defaults
GeneratedParams(args) ==
    NamesOf(SelectSeq(args, LAMBDA a : ~HasDefault(a))) \o NamesOf(SelectSeq(args, HasDefault))

\* The parameter list of the handler the runner builds: param_names
RunnerParams(args) == NamesOf(args)

Params(m, args) == IF m = "generated" THEN GeneratedParams(args) ELSE RunnerParams(args)

\* The parameters that have a default in the signature: the emitted handler
\* gives each defaulted argument its default, the runner's handler none.
SignatureDefaults(m, args) ==
    IF m = "generated"
    THEN {args[i].name : i \in {k \in 1..Len(args) : HasDefault(args[k])}}
    ELSE {}

ArgNamed(args, n) == args[CHOOSE i \in 1..Len(args) : args[i].name = n]

\* Calling the handler with keyword arguments: a parameter without a default
\* that is not supplied is a TypeError of the call itself.
Bind(m, args, supplied) ==
    LET names == SeqToSet(Params(m, args))
    IN IF \E n \in names : n \notin DOMAIN supplied /\ n \notin SignatureDefaults(m, args)
       THEN None
       ELSE Some([n \in names |-> IF n \in DOMAIN supplied THEN supplied[n]
                                  ELSE ArgNamed(args, n).default])

\* First failure of a list of checks
FirstRaised(checks) ==
    LET bad == {i \in 1..Len(checks) : checks[i] # None}
    IN IF bad = {} THEN None ELSE checks[CHOOSE i \in bad : \A j \in bad : i <= j]

\* _generate_argument_validation: per argument, the pattern check and then the
\* choices check, in the order of resolved_args
GeneratedValidation(args, bound) ==
    FirstRaised(Flatten([i \in 1..Len(args) |->
        LET a == args[i]
            value == bound[a.name]
        IN << IF a.pattern # None /\ ~re_match(a.pattern[1], str(value))
              THEN Some(Message("Invalid: must match pattern", Some(a.name), << >>, a.pattern))
              ELSE None,
              IF a.choices # None /\ a.choices[1] # << >>
                 /\ (value = None \/ value[1] \notin SeqToSet(a.choices[1]))
              THEN Some(Message("Invalid: must be one of", Some(a.name), a.choices[1], None))
              ELSE None >>]))

\* The runner's handler: `if value is None: raise ValueError` per argument
RunnerValidation(args, bound) ==
    FirstRaised([i \in 1..Len(args) |->
        IF bound[args[i].name] = None
        THEN Some(Message("Required argument not provided", Some(args[i].name), << >>, None))
        ELSE None])

Validation(m, args, bound) ==
    IF m = "generated" THEN GeneratedValidation(args, bound) ELSE RunnerValidation(args, bound)

\* The render call of the emitted handler passes the arguments positionally:
\* render_template("""cmd""", a, b), which render_template(template_str,
\* **kwargs) rejects with TypeError before its body runs.
GeneratedRender(t, bound) ==
    IF Len(t.args) > 0
    THEN [entered |-> FALSE,
          raised |-> Some(Message("TypeError: render_template() takes 1 positional argument",
                                  None, << >>, None)),
          text |-> << >>]
    ELSE [entered |-> TRUE] @@ render_template(t.cmd, << >>)

\* The runner's handler: render_template(tool.cmd, **args_dict)
RunnerRender(t, bound) == [entered |-> TRUE] @@ render_template(t.cmd, bound)

Render(m, t, bound) == IF m = "generated" THEN GeneratedRender(t, bound) ELSE RunnerRender(t, bound)

\* The tools handlers are built for
HandlerArguments ==
    [name : {"x"}, help : {"h"}, type : {"string"},
     default : {None, Some(<<"a">>)}, choices : {None, Some(<<<<"a">>, <<"b">>>>)},
     pattern : {None, Some(PatA)}, ref : {None}]
    \cup
    [name : {"y"}, help : {"h"}, type : {"string"},
     default : {None, Some(<<"b">>)}, choices : {None},
     pattern : {None}, ref : {None}]

ToolSpecs ==
    [name : {"t1"},
     cmd : CmdTemplates,
     args : {l \in SeqsUpTo(HandlerArguments, MaxArgs) : ~HasDuplicates(NamesOf(l))}]

\* values a host passes: a text or null
Values == {None} \cup {Some(v) : v \in Texts}

Supplied(t) ==
    UNION {[S -> Values] : S \in SUBSET SeqToSet(NamesOf(t.args))}

Idle == [pc |-> "idle", bound |-> None, renders |-> 0, execs |-> 0,
         caught |-> FALSE, raised |-> FALSE, cmd |-> None, result |-> None]

\* The host calls the tool: each handler binds the arguments to its parameters
Invoke(supplied, outcome) ==
    /\ call = None
    /\ call' = Some([supplied |-> supplied, outcome |-> outcome])
    /\ h' = [m \in Modes |->
               LET b == Bind(m, tool[1].args, supplied)
               IN IF b = None THEN [Idle EXCEPT !.pc = "rejected"]
                  ELSE [Idle EXCEPT !.pc = "validate", !.bound = b]]
    /\ UNCHANGED <<tool, ta, parser_config, load, config, config0, first, last, calls>>
    /\ UNCHANGED extVars

\* leave the try block through `except Exception as e`
Caught(s, e) ==
    LET f == ToolFailure(tool[1].name, e)
    IN [s EXCEPT !.pc = "done", !.caught = TRUE, !.raised = f.raised, !.result = f.result]

\* the validation block of handler m
Validate(m) ==
    /\ call # None /\ h[m].pc = "validate"
    /\ LET e == Validation(m, tool[1].args, h[m].bound[1])
       IN h' = [h EXCEPT ![m] = IF e # None THEN Caught(@, e[1]) ELSE [@ EXCEPT !.pc = "render"]]
    /\ UNCHANGED <<tool, call, ta, parser_config, load, config, config0, first, last, calls>>
    /\ UNCHANGED extVars

\* the render call of handler m
RenderCommand(m) ==
    /\ call # None /\ h[m].pc = "render"
    /\ LET r == Render(m, tool[1], h[m].bound[1])
           n == IF r.entered THEN 1 ELSE 0
       IN h' = [h EXCEPT ![m] =
                   IF r.raised # None
                   THEN [Caught(@, r.raised[1]) EXCEPT !.renders = @ + n]
                   ELSE [@ EXCEPT !.pc = "execute", !.renders = @ + n, !.cmd = Some(r.text)]]
    /\ UNCHANGED <<tool, call, ta, parser_config, load, config, config0, first, last, calls>>
    /\ UNCHANGED extVars

\* (variant: a command that was run is reported as a success)
Execute_RanIsSuccess(m) ==
    /\ call # None /\ h[m].pc = "execute"
    /\ h' = [h EXCEPT ![m] = [@ EXCEPT !.pc = "done", !.execs = @ + 1,
                                        !.result = Some([execute_command(h[m].cmd[1], call[1].outcome)
                                                            EXCEPT !.success = call[1].outcome.kind = "exit"])]]
    /\ UNCHANGED <<tool, call, ta, parser_config, load, config, config0, first, last, calls>>
    /\ UNCHANGED extVars

\* result = execute_command(cmd, env_vars); return result
Execute(m) ==
    /\ call # None /\ h[m].pc = "execute"
    /\ h' = [h EXCEPT ![m] = [@ EXCEPT !.pc = "done", !.execs = @ + 1,
                                        !.result = Some(execute_command(h[m].cmd[1], call[1].outcome))]]
    /\ UNCHANGED <<tool, call, ta, parser_config, load, config, config0, first, last, calls>>
    /\ UNCHANGED extVars

Finished(m) == h[m].pc \in {"done", "rejected"}

\* both handlers have answered; the host may call again
Return ==
    /\ call # None /\ \A m \in Modes : Finished(m)
    /\ call' = None
    /\ h' = [m \in Modes |-> Idle]
    /\ UNCHANGED <<tool, ta, parser_config, load, config, config0, first, last, calls>>
    /\ UNCHANGED extVars

Init ==
    /\ ArgIdle /\ LoadIdle /\ ResolveIdle /\ ExtIdle
    /\ tool \in {Some(t) : t \in ToolSpecs}
    /\ call = None
    /\ h = [m \in Modes |-> Idle]

Next ==
    \/ \E s \in Supplied(tool[1]), o \in Outcomes : Invoke(s, o)
    \/ \E m \in Modes : Validate(m)
    \/ \E m \in Modes : RenderCommand(m)
    \/ \E m \in Modes : Execute(m)
    \/ Return

Spec == Init /\ [][Next]_vars

\* ===================================== resources and prompts of a document
\* all variables of the tool models above
coreVars == <<ta, parser_config, load, config, config0, first, last, calls, tool, call, h>>
CoreIdle == ArgIdle /\ LoadIdle /\ ResolveIdle /\ HandlersIdle
PriorIdle == CoreIdle /\ DocIdle /\ RetryIdle /\ EnvIdle /\ ResIdle

Sections == {"resources", "prompts"}

\* the keys that give an entry its content: a resource has cmd, file or
\* text, a prompt has cmd, file or template
content_keys(section) ==
    IF section = "resources" THEN <<"cmd", "file", "text">> ELSE <<"cmd", "file", "template">>

\* an entry of a section as the document gives it: the content keys it has
RawEntries(section) ==
    UNION {[S -> {<<"a">>}] : S \in SUBSET SeqToSet(content_keys(section))}

EntryNames(section) == IF section = "resources" THEN {"r1"} ELSE {"p1"}

Documents ==
    [resources : {None} \cup {Some([n \in EntryNames("resources") |-> e]) : e \in RawEntries("resources")},
     prompts : {None} \cup {Some([n \in EntryNames("prompts") |-> e]) : e \in RawEntries("prompts")}]

\* content_sources = [k for k in [...] if k in entry]
content_sources(section, entry) ==
    SelectSeq(content_keys(section), LAMBDA k : k \in DOMAIN entry)

Diagnostic(section, name, message) ==
    [severity |-> "Error", section |-> section, name |-> name, message |-> message]

\* (variant: only an entry without any content is reported)
validate_custom_rules_MissingOnly(data) ==
    LET Of(section) ==
            IF data[section] = None THEN {}
            ELSE {Diagnostic(section, n, "must specify exactly one of") :
                     n \in {k \in DOMAIN data[section][1] :
                               Len(content_sources(section, data[section][1][k])) = 0}}
    IN Of("resources") \cup Of("prompts")

\* ShellMCPLanguageServer._validate_custom_rules(yaml_data, doc): the
\* diagnostics it returns (their order is the order of the entries)
validate_custom_rules(data) ==
    LET Of(section) ==
            IF data[section] = None THEN {}
            ELSE {Diagnostic(section, n, "must specify exactly one of") :
                     n \in {k \in DOMAIN data[section][1] :
                               Len(content_sources(section, data[section][1][k])) = 0}}
                 \cup
                 {Diagnostic(section, n, "can only specify one of") :
                     n \in {k \in DOMAIN data[section][1] :
                               Len(content_sources(section, data[section][1][k])) > 1}}
    IN Of("resources") \cup Of("prompts")

\* ResourceConfig(**entry) / PromptConfig(**entry): the entry is accepted when
\* it has exactly one content source
ContentConfig(section, entry) ==
    IF Len(content_sources(section, entry)) = 1
    THEN [ok |-> TRUE, obj |-> Some([source |-> content_sources(section, entry)[1],
                                     content |-> entry[content_sources(section, entry)[1]]])]
    ELSE [ok |-> FALSE, obj |-> None]

\* YMLParser.load_from_string on the document: every entry of both sections is
\* built; one that fails makes the load raise
load_document(data) ==
    LET Built(section) ==
            IF data[section] = None THEN << >>
            ELSE [n \in DOMAIN data[section][1] |-> ContentConfig(section, data[section][1][n])]
        ok == \A section \in Sections : \A n \in DOMAIN Built(section) : Built(section)[n].ok
    IN IF ok
       THEN [ok |-> TRUE,
             config |-> Some([section \in Sections |->
                                [n \in DOMAIN Built(section) |-> Built(section)[n].obj[1]]])]
       ELSE [ok |-> FALSE, config |-> None]

\* a document is opened in the editor and handed to the compiler
did_open(data) ==
    /\ yaml_data = None
    /\ yaml_data' = Some(data)
    /\ UNCHANGED <<diagnostics, compiled, mcp>>
    /\ UNCHANGED <<coreVars, rt, envVars, resVars, cliVars>>

\* ShellMCPLanguageServer._validate_document publishes the diagnostics
validate_document ==
    /\ yaml_data # None /\ diagnostics = None
    /\ diagnostics' = Some(validate_custom_rules(yaml_data[1]))
    /\ UNCHANGED <<yaml_data, compiled, mcp>>
    /\ UNCHANGED <<coreVars, rt, envVars, resVars, cliVars>>

\* the document is compiled
load_from_string ==
    /\ yaml_data # None /\ compiled = None
    /\ compiled' = Some(load_document(yaml_data[1]))
    /\ UNCHANGED <<yaml_data, diagnostics, mcp>>
    /\ UNCHANGED <<coreVars, rt, envVars, resVars, cliVars>>

\* MCPRunner(config): _register_resources and _register_prompts register one
\* handler per entry of the configuration
MCPRunner ==
    /\ compiled # None /\ compiled[1].ok /\ ~mcp.built
    /\ mcp' = [built |-> TRUE,
               handlers |-> {p \in Sections \X {"r1", "p1"} :
                                p[2] \in DOMAIN compiled[1].config[1][p[1]]}]
    /\ UNCHANGED <<yaml_data, diagnostics, compiled>>
    /\ UNCHANGED <<coreVars, rt, envVars, resVars, cliVars>>

InitDoc == CoreIdle /\ ExtIdle
NextDoc ==
    \/ \E data \in Documents : did_open(data)
    \/ validate_document
    \/ load_from_string
    \/ MCPRunner
SpecDoc == InitDoc /\ [][NextDoc]_vars

\* ================================== enhanced_server: execution with retries
MaxRetries == 2
MaxTimeout == 2

\* What a started command would do: run for dur time units and exit with code,
\* or fail to start.
Runs == [kind : {"run"}, dur : 1..(MaxTimeout + 1), code : ExitCodes]
        \cup {[kind |-> "oserror", dur |-> 0, code |-> 0]}

\* subprocess.run(cmd, ..., timeout=timeout): TimeoutExpired when the command
\* runs longer than timeout
subprocess_run(run, timeout) ==
    IF run.kind = "oserror" THEN [kind |-> "oserror", code |-> 0]
    ELSE IF run.dur > timeout THEN [kind |-> "timeout", code |-> 0]
    ELSE [kind |-> "exit", code |-> run.code]

\* (variant: the timeout is not caught)
execute_command_timeout_Uncaught(cmd, run, timeout) ==
    IF subprocess_run(run, timeout).kind = "timeout"
    THEN [raised |-> TRUE, result |-> None]
    ELSE [raised |-> FALSE, result |-> Some(execute_command(cmd, subprocess_run(run, timeout)))]

\* execute_command(cmd, env_vars, timeout): every exception of subprocess.run
\* is caught and turned into a result
execute_command_timeout(cmd, run, timeout) ==
    [raised |-> FALSE, result |-> Some(execute_command(cmd, subprocess_run(run, timeout)))]

Scripts(m) == [1..(m + 1) -> Runs]

\* the result of a missing dependency
MissingDependencies ==
    [success |-> FALSE, stdout |-> << >>,
     stderr |-> Message("Missing dependencies", None, << >>, None), returncode |-> -1]

\* (variant: a success does not end the loop)
LoopExit_LastOnly(r, attempt, max_retries) == attempt = max_retries

\* `if result["success"] or attempt == max_retries: return result`
LoopExit(r, attempt, max_retries) == r.success \/ attempt = max_retries

\* (variant: range(max_retries))
attempts_Short(max_retries) == max_retries

\* `for attempt in range(max_retries + 1)`: the number of passes
attempts(max_retries) == max_retries + 1

\* `return result` after the loop; result is unbound when no pass ran, and the
\* handler's boundary catches the UnboundLocalError
AfterLoop(results) ==
    IF results = << >> \/ results[Len(results)] = None
    THEN ToolFailure("DatabaseBackup", Message("UnboundLocalError", None, << >>, None)).result
    ELSE results[Len(results)]

\* the loop is entered: its first pass is due, or there is none
EnterLoop(s) ==
    IF s.attempt < attempts(s.max_retries)
    THEN [s EXCEPT !.pc = "loop"]
    ELSE [s EXCEPT !.pc = "done", !.result = AfterLoop(s.results)]

\* the command template of a tool with retries; the second is one the
\* template engine rejects
RetryTemplates ==
    {[ok |-> TRUE, parts |-> <<Lit(<<"c">>), Var("database")>>],
     [ok |-> FALSE, parts |-> <<Lit(<<"c">>), Var("database")>>]}

\* (variant: the validation and the render are inside the retry loop, so a
\* failure of either is slept on and tried again like a failed command)
databasebackup_RetryAll(m, timeout, script, deps_found, database, template) ==
    /\ rt.pc = "idle"
    /\ LET started == [NoRetry EXCEPT !.max_retries = m, !.timeout = timeout,
                                      !.args = Some([deps_found |-> deps_found,
                                                     database |-> database,
                                                     template |-> template])]
           t == render_template(template, [n \in {"database"} |-> Some(database)])
       IN rt' = IF ~deps_found
                THEN [started EXCEPT !.pc = "done", !.result = Some(MissingDependencies)]
                ELSE IF ~re_match(PatA, database) \/ t.raised # None
                THEN [started EXCEPT !.validates = 1, !.pc = "sleep", !.cmd = Some(<<"c">>),
                                     !.script = script]
                ELSE EnterLoop([started EXCEPT !.validates = 1, !.renders = 1,
                                               !.cmd = Some(t.text), !.script = script])
    /\ UNCHANGED <<docVars, envVars, resVars, cliVars>>
    /\ UNCHANGED coreVars

\* databasebackup(database, backup_file) up to the retry loop: the dependency
\* checks, the pattern validation and the render; then attempt 0 is due.  A
\* ValueError of the validation or of render_template goes to the handler's
\* boundary.
databasebackup(m, timeout, script, deps_found, database, template) ==
    /\ rt.pc = "idle"
    /\ LET started == [NoRetry EXCEPT !.max_retries = m, !.timeout = timeout,
                                      !.args = Some([deps_found |-> deps_found,
                                                     database |-> database,
                                                     template |-> template])]
           validated == [started EXCEPT !.validates = 1]
           t == render_template(template, [n \in {"database"} |-> Some(database)])
       IN rt' = IF ~deps_found
                THEN [started EXCEPT !.pc = "done", !.result = Some(MissingDependencies)]
                ELSE IF ~re_match(PatA, database)
                THEN [validated EXCEPT !.pc = "done",
                         !.result = ToolFailure("DatabaseBackup",
                                       Message("Invalid: must match pattern", Some("database"),
                                               << >>, Some(PatA))).result]
                ELSE IF t.raised # None
                THEN [validated EXCEPT !.renders = 1, !.pc = "done",
                         !.result = ToolFailure("DatabaseBackup", t.raised[1]).result]
                ELSE EnterLoop([validated EXCEPT !.renders = 1, !.cmd = Some(t.text),
                                                 !.script = script])
    /\ UNCHANGED <<docVars, envVars, resVars, cliVars>>
    /\ UNCHANGED coreVars

\* one pass of the loop: execute the command; return the result, or go to
\* sleep before the next attempt.  An exception of execute_command on the last
\* attempt goes to the handler's boundary.
Attempt ==
    /\ rt.pc = "loop"
    /\ LET run == rt.script[IF rt.execs + 1 <= Len(rt.script) THEN rt.execs + 1 ELSE Len(rt.script)]
           e == execute_command_timeout(rt.cmd[1], run, rt.timeout)
           ran == [rt EXCEPT !.execs = @ + 1,
                             !.results = Append(@, IF e.raised THEN None ELSE e.result)]
       IN rt' = IF e.raised
                THEN IF rt.attempt = rt.max_retries
                     THEN [ran EXCEPT !.pc = "done",
                              !.result = ToolFailure("DatabaseBackup",
                                            Message("TimeoutExpired", None, << >>, None)).result]
                     ELSE [ran EXCEPT !.pc = "sleep"]
                ELSE IF LoopExit(e.result[1], rt.attempt, rt.max_retries)
                     THEN [ran EXCEPT !.pc = "done", !.result = e.result]
                     ELSE [ran EXCEPT !.pc = "sleep"]
    /\ UNCHANGED <<docVars, envVars, resVars, cliVars>>
    /\ UNCHANGED coreVars

\* time.sleep(1), then the next pass if the range has one
Sleep ==
    /\ rt.pc = "sleep"
    /\ rt' = EnterLoop([rt EXCEPT !.attempt = @ + 1, !.sleeps = @ + 1])
    /\ UNCHANGED <<docVars, envVars, resVars, cliVars>>
    /\ UNCHANGED coreVars

\* the handler has returned; the host may call it again
ReturnRetry ==
    /\ rt.pc = "done"
    /\ rt' = NoRetry
    /\ UNCHANGED <<docVars, envVars, resVars, cliVars>>
    /\ UNCHANGED coreVars

InitRetry == CoreIdle /\ ExtIdle
NextRetry ==
    \/ /\ rt.pc = "idle"
       /\ \E m \in 0..MaxRetries, t \in 1..MaxTimeout, d \in BOOLEAN, db \in {<<"a">>, <<"b">>} :
             \E sc \in Scripts(m), tpl \in RetryTemplates : databasebackup(m, t, sc, d, db, tpl)
    \/ Attempt
    \/ Sleep
    \/ ReturnRetry
SpecRetry == InitRetry /\ [][NextRetry]_vars

\* the scheduler runs a handler that can take a step
SpecRetryFair == SpecRetry /\ WF_vars(Attempt) /\ WF_vars(Sleep)

\* ====================================================== environment maps
\* A dict of environment variables is a function from names to values; an env
\* field that is None and one that is {} are both the empty function, which
\* is how `if tool.env:` and `if env_vars:` treat them.
ServerNames == {"s1", "s2"}
Threads == {"T1", "T2"}

\* the environment the process starts with
ProcessEnv == [k \in {"PATH", "HOME"} |-> IF k = "PATH" THEN "p" ELSE "h"]

ServerEnvs ==
    {<< >>, [k \in {"LOG"} |-> "1"],
     [k \in {"LOG", "PATH"} |-> IF k = "LOG" THEN "2" ELSE "s"]}
ToolEnvs ==
    {<< >>, [k \in {"PATH"} |-> "q"], [k \in {"KEY"} |-> "v"]}

\* d.update(other)
dict_update(d, other) ==
    [k \in DOMAIN d \cup DOMAIN other |-> IF k \in DOMAIN other THEN other[k] ELSE d[k]]

NoInvocation == [pc |-> "idle", server |-> None, env_vars |-> << >>, own |-> TRUE,
                 env |-> << >>, seen |-> << >>, given |-> None]

\* MCPRunner._setup_server, and the assignments _generate_server_init emits at
\* the top of the generated module: os.environ[key] = value per server env
\* entry
setup_server(s) ==
    /\ ~servers[s].built
    /\ environ' = dict_update(environ, servers[s].env)
    /\ servers' = [servers EXCEPT ![s].built = TRUE]
    /\ UNCHANGED inv
    /\ UNCHANGED <<coreVars, docVars, rt, resVars, cliVars>>

\* a thread enters the tool handler of a built server: env_vars = {}
tool_func(t, s) ==
    /\ inv[t].pc = "idle" /\ servers[s].built
    /\ inv' = [inv EXCEPT ![t] = [NoInvocation EXCEPT !.pc = "env_vars", !.server = Some(s)]]
    /\ UNCHANGED <<environ, servers>>
    /\ UNCHANGED <<coreVars, docVars, rt, resVars, cliVars>>

\* `if tool.env: env_vars.update(tool.env)`
update_env_vars(t) ==
    /\ inv[t].pc = "env_vars"
    /\ inv' = [inv EXCEPT ![t].pc = "copy",
                           ![t].env_vars = dict_update(@, servers[inv[t].server[1]].tool_env)]
    /\ UNCHANGED <<environ, servers>>
    /\ UNCHANGED <<coreVars, docVars, rt, resVars, cliVars>>

\* (variant: env = os.environ, the same object)
environ_copy_Alias(e) == [own |-> FALSE, env |-> << >>]

\* env = os.environ.copy(): a dict of its own
environ_copy(e) == [own |-> TRUE, env |-> e]

\* execute_command: the copy
copy_environ(t) ==
    /\ inv[t].pc = "copy"
    /\ inv' = [inv EXCEPT ![t] = [@ EXCEPT !.pc = "update", !.seen = environ,
                                          !.own = environ_copy(environ).own,
                                          !.env = environ_copy(environ).env]]
    /\ UNCHANGED <<environ, servers>>
    /\ UNCHANGED <<coreVars, docVars, rt, resVars, cliVars>>

\* execute_command: `if env_vars: env.update(env_vars)`, on the object env
\* names
update_env(t) ==
    /\ inv[t].pc = "update"
    /\ IF inv[t].own
       THEN /\ inv' = [inv EXCEPT ![t].pc = "run", ![t].env = dict_update(@, inv[t].env_vars)]
            /\ UNCHANGED environ
       ELSE /\ inv' = [inv EXCEPT ![t].pc = "run"]
            /\ environ' = dict_update(environ, inv[t].env_vars)
    /\ UNCHANGED servers
    /\ UNCHANGED <<coreVars, docVars, rt, resVars, cliVars>>

\* execute_command: subprocess.run(cmd, ..., env=env) starts the command
subprocess_run_env(t) ==
    /\ inv[t].pc = "run"
    /\ inv' = [inv EXCEPT ![t].pc = "done",
                           ![t].given = Some(IF inv[t].own THEN inv[t].env ELSE environ)]
    /\ UNCHANGED <<environ, servers>>
    /\ UNCHANGED <<coreVars, docVars, rt, resVars, cliVars>>

\* the handler returns its result
return_result(t) ==
    /\ inv[t].pc = "done"
    /\ inv' = [inv EXCEPT ![t] = NoInvocation]
    /\ UNCHANGED <<environ, servers>>
    /\ UNCHANGED <<coreVars, docVars, rt, resVars, cliVars>>

InitEnv ==
    /\ CoreIdle /\ DocIdle /\ RetryIdle /\ ResIdle /\ CliIdle
    /\ environ = ProcessEnv
    /\ servers \in [ServerNames -> [env : ServerEnvs, tool_env : ToolEnvs, built : {FALSE}]]
    /\ inv = [t \in Threads |-> NoInvocation]
NextEnv ==
    \/ \E s \in ServerNames : setup_server(s)
    \/ \E t \in Threads, s \in ServerNames : tool_func(t, s)
    \/ \E t \in Threads : update_env_vars(t)
    \/ \E t \in Threads : copy_environ(t)
    \/ \E t \in Threads : update_env(t)
    \/ \E t \in Threads : subprocess_run_env(t)
    \/ \E t \in Threads : return_result(t)
SpecEnv == InitEnv /\ [][NextEnv]_vars

\* ====================================================== resource handlers
\* The emitted handler is the one of examples/configs/
\* comprehensive_mcp_server_fixed.py; the runner's is built by
\* MCPRunner._register_resource.
ContentSources == {"text", "file", "cmd"}

ResourceArguments ==
    [name : {"x"}, help : {"h"}, type : {"string"},
     default : {None, Some(<<"a">>)}, choices : {None},
     pattern : {None, Some(PatA)}, ref : {None}]

\* a resource or a prompt: the two handlers differ in the names of the content
\* fields (text / template) and in the words of the file error
ContentKinds == {"resource", "prompt"}

ResourceSpecs ==
    [name : {"r1"}, kind : ContentKinds, source : ContentSources,
     content : CmdTemplates, args : SeqsUpTo(ResourceArguments, 1)]

FileNotFound(kind) ==
    IF kind = "resource" THEN "Resource file not found" ELSE "Prompt file not found"

NoContent == [rejected |-> FALSE, raised |-> None, content |-> None,
              renders |-> 0, execs |-> 0, reads |-> 0]

\* f.read() of the file at a path
FileContent(path) == <<"F">> \o path

\* the `except Exception as e: raise ValueError(f"Error in {name}: ...")`
\* boundary of a resource handler
ResourceFailure(r, done, e) ==
    [done EXCEPT !.raised = Some([e EXCEPT !.prefix = Some(r.name)])]

\* (variant: the command's stdout is returned whether or not it succeeded)
get_content_Unchecked(r, bound, outcome, file_exists) ==
    LET t == render_template(r.content, bound)
        rendered == [NoContent EXCEPT !.renders = 1]
    IN IF t.raised # None THEN ResourceFailure(r, rendered, t.raised[1])
       ELSE IF r.source = "text" THEN [rendered EXCEPT !.content = Some(t.text)]
       ELSE IF r.source = "file"
       THEN IF file_exists
            THEN [rendered EXCEPT !.reads = 1, !.content = Some(FileContent(t.text))]
            ELSE ResourceFailure(r, [rendered EXCEPT !.reads = 1],
                                 Message(FileNotFound(r.kind), None, <<t.text>>, None))
       ELSE [rendered EXCEPT !.execs = 1,
                             !.content = Some(execute_command(t.text, outcome).stdout)]

\* The body both handlers share once the arguments are bound and validated:
\* render the content source, then return the text, read the file, or run the
\* command and return its stdout.
get_content(r, bound, outcome, file_exists) ==
    LET t == render_template(r.content, bound)
        rendered == [NoContent EXCEPT !.renders = 1]
    IN IF t.raised # None THEN ResourceFailure(r, rendered, t.raised[1])
       ELSE IF r.source = "text" THEN [rendered EXCEPT !.content = Some(t.text)]
       ELSE IF r.source = "file"
       THEN IF file_exists
            THEN [rendered EXCEPT !.reads = 1, !.content = Some(FileContent(t.text))]
            ELSE ResourceFailure(r, [rendered EXCEPT !.reads = 1],
                                 Message(FileNotFound(r.kind), None, <<t.text>>, None))
       ELSE LET result == execute_command(t.text, outcome)
            IN IF ~result.success
               THEN ResourceFailure(r, [rendered EXCEPT !.execs = 1],
                                    Message("Command failed", None, << >>, None))
               ELSE [rendered EXCEPT !.execs = 1, !.content = Some(result.stdout)]

\* the pattern checks the emitted handler starts with
ResourceValidation(args, bound) ==
    FirstRaised([i \in 1..Len(args) |->
        IF args[i].pattern # None /\ ~re_match(args[i].pattern[1], str(bound[args[i].name]))
        THEN Some(Message("Invalid: must match pattern", Some(args[i].name), << >>, args[i].pattern))
        ELSE None])

\* A read of the resource through the handler of mode m.  The emitted handler
\* has the defaults in its signature and validates patterns; the runner's is
\* exec'd from param_names, without defaults and without validation.
resource_func(m, r, supplied, outcome, file_exists) ==
    LET b == Bind(m, r.args, supplied)
    IN IF b = None THEN [NoContent EXCEPT !.rejected = TRUE]
       ELSE LET e == IF m = "generated" THEN ResourceValidation(r.args, b[1]) ELSE None
            IN IF e # None THEN ResourceFailure(r, NoContent, e[1])
               ELSE get_content(r, b[1], outcome, file_exists)

\* the host reads the resource
read_resource(supplied, outcome, file_exists) ==
    /\ rcall = None
    /\ rcall' = Some([supplied |-> supplied, outcome |-> outcome, file_exists |-> file_exists])
    /\ rh' = Some([m \in Modes |-> resource_func(m, resource[1], supplied, outcome, file_exists)])
    /\ UNCHANGED resource
    /\ UNCHANGED <<coreVars, docVars, rt, envVars, cliVars>>

\* the content, or the error, has gone back to the host
resource_returned ==
    /\ rcall # None
    /\ rcall' = None /\ rh' = None
    /\ UNCHANGED resource
    /\ UNCHANGED <<coreVars, docVars, rt, envVars, cliVars>>

InitRes ==
    /\ CoreIdle /\ DocIdle /\ RetryIdle /\ EnvIdle /\ CliIdle
    /\ resource \in {Some(r) : r \in ResourceSpecs}
    /\ rcall = None /\ rh = None
NextRes ==
    \/ \E s \in Supplied(resource[1]), o \in Outcomes, f \in BOOLEAN : read_resource(s, o, f)
    \/ resource_returned
SpecRes == InitRes /\ [][NextRes]_vars

\* ======================================================= parser: all loads
\* the configurations the loads of a parser are given: at most one argument
\* per tool
ParserConfig(d) ==
    d.tools # None =>
        \A n \in DOMAIN d.tools[1] :
            d.tools[1][n].args # None => Len(d.tools[1][n].args[1]) <= 1

\* a load that raises before load_from_dict is reached
LoadRaised(exception) ==
    /\ load.n < MaxLoads
    /\ load' = [n |-> load.n + 1, data |-> None, ok |-> FALSE, errors |-> << >>,
                raised |-> Some(exception)]
    /\ UNCHANGED parser_config
    /\ UNCHANGED <<ta, config, config0, first, last, calls, tool, call, h>>
    /\ UNCHANGED extVars

\* YMLParser.load_from_file(file_path), up to its call of load_from_dict:
\* FileNotFoundError for a missing file, the error of yaml.safe_load for a
\* text that is not YAML
load_from_file(exists, is_yaml) ==
    IF ~exists THEN Some("FileNotFoundError")
    ELSE IF ~is_yaml THEN Some("YAMLError")
    ELSE None

\* YMLParser.load_from_string(yaml_string), up to its call of load_from_dict
load_from_yaml_string(is_yaml) == IF ~is_yaml THEN Some("YAMLError") ELSE None

LoadMethods == {"load_from_dict", "load_from_file", "load_from_string"}

\* one load call: the file and the text are read, then load_from_dict is given
\* the data
Load(method, data, exists, is_yaml) ==
    LET early == IF method = "load_from_file" THEN load_from_file(exists, is_yaml)
                 ELSE IF method = "load_from_string" THEN load_from_yaml_string(is_yaml)
                 ELSE None
    IN IF early # None THEN LoadRaised(early[1]) ELSE load_from_dict(data)

\* YMLParser.get_server_info(): {} without a configuration, else the counts
\* (and the server fields) of self.config
get_server_info ==
    IF parser_config = None THEN << >>
    ELSE LET c == parser_config[1]
         IN [tools_count |-> IF c.tools = None THEN 0 ELSE Cardinality(DOMAIN c.tools[1]),
             reusable_args_count |-> IF c.args = None THEN 0 ELSE Cardinality(DOMAIN c.args[1])]

\* YMLParser.get_resolved_tool_arguments(tool_name): [] without a
\* configuration, else what self.config resolves
get_resolved_tool_arguments(tool_name) ==
    IF parser_config = None THEN << >>
    ELSE ResolvedArguments(parser_config[1], tool_name).list

\* a query method is called
Query(method, tool_name) ==
    /\ answer' = Some([method |-> method, tool_name |-> tool_name,
                       info |-> IF method = "get_server_info"
                                THEN get_server_info ELSE << >>,
                       arguments |-> IF method = "get_resolved_tool_arguments"
                                     THEN get_resolved_tool_arguments(tool_name)
                                     ELSE << >>])
    /\ UNCHANGED <<genVars, lint, tv, instVars, registry>>
    /\ UNCHANGED <<coreVars, docVars, rt, envVars, resVars>>

InitParser == InitLoad
NextParser ==
    \/ /\ load.n < MaxLoads
       /\ \E method \in LoadMethods, exists \in BOOLEAN, is_yaml \in BOOLEAN :
             \E data \in RawConfigs : ParserConfig(data) /\ Load(method, data, exists, is_yaml)
    \/ \E t \in ToolNames : Query("get_server_info", t) \/ Query("get_resolved_tool_arguments", t)
SpecParser == InitParser /\ [][NextParser]_vars

\* ============================================================ cli: generate
\* what `generate` creates, in the order it creates it
OutputSteps == <<"dir", "server", "requirements", "readme">>

\* the files a run leaves when the write of step `fails` raises OSError
Written(fails) ==
    IF fails = None THEN SeqToSet(OutputSteps)
    ELSE {OutputSteps[i] : i \in {j \in 1..Len(OutputSteps) :
                                     \A k \in 1..j : OutputSteps[k] # fails[1]}}

\* mkdir(exist_ok=True) keeps a directory that is there; open(..., 'w')
\* replaces a file
WriteAll(files, names, n) ==
    [f \in DOMAIN files \cup names |->
        IF f \in names /\ (f # "dir" \/ f \notin DOMAIN files) THEN n ELSE files[f]]

\* (variant: the output directory is created before the configuration is
\* loaded)
generate_MkdirFirst(data, exists, fails) ==
    /\ gen.n < MaxLoads
    /\ LET n == gen.n + 1
           valid == exists /\ YMLConfig(data).ok
       IN /\ fs' = IF ~exists THEN fs
                   ELSE IF ~valid THEN WriteAll(fs, {"dir"}, n)
                   ELSE WriteAll(fs, Written(fails), n)
          /\ gen' = [n |-> n, data |-> IF exists THEN Some(data) ELSE None,
                     exit |-> Some(IF valid /\ fails = None THEN 0 ELSE 1)]
    /\ UNCHANGED <<lint, tv, instVars, registry, answer>>
    /\ UNCHANGED <<coreVars, docVars, rt, envVars, resVars>>

\* generate(config_file, output_dir): the file is looked for and loaded first;
\* the directory and the three files are written only after the load
\* succeeded (generate_server loads the same file once more).  Every exception
\* becomes exit code 1.
generate(data, exists, fails) ==
    /\ gen.n < MaxLoads
    /\ LET n == gen.n + 1
           valid == exists /\ YMLConfig(data).ok
       IN /\ fs' = IF valid THEN WriteAll(fs, Written(fails), n) ELSE fs
          /\ gen' = [n |-> n, data |-> IF exists THEN Some(data) ELSE None,
                     exit |-> Some(IF valid /\ fails = None THEN 0 ELSE 1)]
    /\ UNCHANGED <<lint, tv, instVars, registry, answer>>
    /\ UNCHANGED <<coreVars, docVars, rt, envVars, resVars>>

WriteFailures == {None} \cup {Some(OutputSteps[i]) : i \in 1..Len(OutputSteps)}

InitGen == PriorIdle /\ CliIdle
NextGen ==
    /\ gen.n < MaxLoads
    /\ \E data \in RawConfigs, exists \in BOOLEAN, fails \in WriteFailures :
          generate(data, exists, fails)
SpecGen == InitGen /\ [][NextGen]_vars

\* ===================================================== template variables
\* jinja2.Template(template_str): TemplateSyntaxError for a text the engine
\* rejects
jinja2_Template(template_str) == [raised |-> ~template_str.ok, source |-> template_str]

\* `template.parse()` on a jinja2.Template instance: the class has no such
\* attribute (parse is a method of Environment), so the lookup raises
\* AttributeError
Template_parse(template) == [raised |-> TRUE, body |-> << >>]

\* the `name` attributes of the nodes the loop would visit
NodeNames(body) == {body[i].v[1] : i \in {j \in 1..Len(body) : body[j].kind = "var"}}

\* list(set(variables)), in some order
RECURSIVE SetToList(_)
SetToList(S) ==
    IF S = {} THEN << >>
    ELSE LET x == CHOOSE y \in S : TRUE IN <<x>> \o SetToList(S \ {x})

\* YMLConfig.get_template_variables(tool_name): every exception inside the
\* try block gives the empty list
get_template_variables(self, tool_name) ==
    IF self.tools = None \/ DOMAIN self.tools[1] = {} \/ tool_name \notin DOMAIN self.tools[1]
    THEN << >>
    ELSE LET template == jinja2_Template(self.tools[1][tool_name].cmd)
         IN IF template.raised THEN << >>
            ELSE LET ast == Template_parse(template)
                 IN IF ast.raised THEN << >>
                    ELSE SetToList(NodeNames(ast.body))

\* command templates made of literal text and interpolations only
TemplateParts == {Lit(<<"c">>), Var("x"), Var("y"), Var("now")}
Templates ==
    [ok : {TRUE}, parts : SeqsUpTo(TemplateParts, MaxArgs + 1)]
    \cup {[ok |-> FALSE, parts |-> <<Var("x")>>]}

\* a configuration with the one tool t1
OneTool(cmd, args) == [args |-> None, tools |-> Some([n \in {"t1"} |-> [cmd |-> cmd, args |-> args]])]

\* config.get_template_variables(tool_name) is called
extract_variables(cmd, tool_name) ==
    /\ tv' = Some([cmd |-> cmd, tool_name |-> tool_name,
                   variables |-> get_template_variables(OneTool(cmd, None), tool_name)])
    /\ UNCHANGED <<genVars, lint, instVars, registry, answer>>
    /\ UNCHANGED <<coreVars, docVars, rt, envVars, resVars>>

InitTv == PriorIdle /\ CliIdle
NextTv == \E cmd \in Templates, t \in ToolNames : extract_variables(cmd, t)
SpecTv == InitTv /\ [][NextTv]_vars

\* ============================================================ cli: validate
\* YMLParser.validate_argument_consistency(): per tool, the template variables
\* that are neither a resolved argument nor 'now'; a tool without any is left
\* out
validate_argument_consistency(self) ==
    IF self = None \/ self[1].tools = None \/ DOMAIN self[1].tools[1] = {} THEN << >>
    ELSE LET config_ == self[1]
             arg_names(t) == SeqToSet(NamesOf(ResolvedArguments(config_, t).list))
             missing_args(t) ==
                 SelectSeq(get_template_variables(config_, t),
                           LAMBDA var : var \notin arg_names(t) /\ var # "now")
         IN [t \in {n \in DOMAIN config_.tools[1] : missing_args(n) # << >>} |-> missing_args(t)]

\* configurations whose tools have a command template
LintArguments ==
    {None,
     Some(<<[name |-> "x", help |-> "h", type |-> "string", default |-> None,
             choices |-> None, pattern |-> None, ref |-> None]>>),
     Some(<<[name |-> "y", help |-> "h", type |-> "string", default |-> None,
             choices |-> None, pattern |-> None, ref |-> None]>>),
     Some(<<[name |-> "x", help |-> "h", type |-> "string", default |-> None,
             choices |-> None, pattern |-> None, ref |-> Some("R1")]>>)}

LintTemplates == {c \in Templates : Len(c.parts) <= MaxArgs}

LintConfigs ==
    LET sections == {None, Some([r \in {"R1"} |-> DefR1])}
        second == [cmd |-> [ok |-> TRUE, parts |-> <<Lit(<<"c">>), Var("y")>>], args |-> None]
        tools == {Some([n \in {"t1"} |-> [cmd |-> c, args |-> a]]) :
                      c \in LintTemplates, a \in LintArguments}
                 \cup {Some([n \in {"t1", "t2"} |->
                                IF n = "t1" THEN [cmd |-> c, args |-> a] ELSE second]) :
                          c \in LintTemplates, a \in LintArguments}
    IN [args : sections, tools : tools]

\* YMLConfig(**data) accepts the configuration
Accepted(c) ==
    RootValidators([args |-> Some(c.args), tools |-> Some(c.tools)]) = << >>

\* validate(config_file, verbose): load the file, print the result and, when
\* verbose, the template and consistency reports; exit code 0 unless the file
\* is missing or the load raised
validate(c, exists, verbose) ==
    /\ lint' = IF ~exists \/ ~Accepted(c)
               THEN Some([config |-> IF exists THEN Some(c) ELSE None, verbose |-> verbose,
                          report |-> None, exit |-> 1])
               ELSE Some([config |-> Some(c), verbose |-> verbose,
                          report |-> IF verbose
                                     THEN Some(validate_argument_consistency(Some(c)))
                                     ELSE None,
                          exit |-> 0])
    /\ UNCHANGED <<genVars, tv, instVars, registry, answer>>
    /\ UNCHANGED <<coreVars, docVars, rt, envVars, resVars>>

InitLint == PriorIdle /\ CliIdle
NextLint == \E c \in LintConfigs, exists \in BOOLEAN, verbose \in BOOLEAN : validate(c, exists, verbose)
SpecLint == InitLint /\ [][NextLint]_vars

\* ======================================================= amazonq installer
\* get_mcp_config_paths(), in the order find_existing_mcp_config tries them
Locations == <<"global", "local">>

\* server names of YAML configurations, and the keys a configuration file
\* holds before the installer touches it
YmlNames == {<<"A">>, <<"a">>, <<"b", "_">>, <<"b", " ">>}
StoredKeys == {<<"a">>, <<"b", "-">>}

\* name.replace(' ', '-').replace('_', '-').lower()
lower(c) == IF c = "A" THEN "a" ELSE IF c = "B" THEN "b" ELSE c
normalize(name) ==
    [i \in 1..Len(name) |-> IF name[i] \in {" ", "_"} THEN "-" ELSE lower(name[i])]

\* An mcp.json file: the entries under "mcpServers", and whether json.load
\* can read the text (a hand-edited file with a trailing comma cannot be read)
McpFiles ==
    {None} \cup {Some([parses |-> p, servers |-> m]) :
                    p \in BOOLEAN, m \in UNION {[K -> {"p0"}] : K \in SUBSET StoredKeys}}

\* find_existing_mcp_config(): the first location whose file exists
find_existing_mcp_config ==
    LET found == {i \in 1..Len(Locations) : mcp_config[Locations[i]] # None}
    IN IF found = {} THEN None
       ELSE Some(Locations[CHOOSE i \in found : \A j \in found : i <= j])

\* load_mcp_config(config_path): the dict of the file; a file that is missing
\* or cannot be read gives the default {"mcpServers": {}}
load_mcp_config(config_path) ==
    LET file == mcp_config[config_path]
    IN IF file # None /\ file[1].parses THEN file[1].servers ELSE << >>

\* save_mcp_config(config, config_path): the file is replaced by the dump
save_mcp_config(mcpServers, config_path) ==
    [mcp_config EXCEPT ![config_path] = Some([parses |-> TRUE, servers |-> mcpServers])]

\* the dict with one key set, and with one key deleted
dict_set(d, k, v) == [x \in DOMAIN d \cup {k} |-> IF x = k THEN v ELSE d[x]]
dict_del(d, k) == [x \in DOMAIN d \ {k} |-> d[x]]

NoInstall(op, key, exit) ==
    [op |-> op, key |-> key, path |-> None, force |-> FALSE, existed |-> FALSE,
     saved |-> FALSE, exit |-> exit]

\* (variant: an existing entry is overwritten without --force)
install_server_Overwrite(name, yml_ok, config_location, force) ==
    LET server_name == normalize(name)
        path == IF config_location = "auto"
                THEN IF find_existing_mcp_config # None THEN find_existing_mcp_config[1]
                     ELSE "local"
                ELSE config_location
        mcpServers == load_mcp_config(path)
        call_ == [NoInstall("install", Some(server_name), 0) EXCEPT
                    !.path = Some(path), !.force = force,
                    !.existed = server_name \in DOMAIN mcpServers]
    IN IF ~yml_ok
       THEN /\ inst' = Some(NoInstall("install", None, 1))
            /\ UNCHANGED mcp_config
       ELSE /\ inst' = Some([call_ EXCEPT !.saved = TRUE])
            /\ mcp_config' = save_mcp_config(dict_set(mcpServers, server_name, "p1"), path)

\* install_server(yml_file, server_path, config_location, python_executable,
\* force): the entry of the normalized server name is set and the file saved,
\* unless the YAML file does not load or the entry exists and force is off
install_server(name, yml_ok, config_location, force) ==
    LET server_name == normalize(name)
        path == IF config_location = "auto"
                THEN IF find_existing_mcp_config # None THEN find_existing_mcp_config[1]
                     ELSE "local"
                ELSE config_location
        mcpServers == load_mcp_config(path)
        call_ == [NoInstall("install", Some(server_name), 0) EXCEPT
                    !.path = Some(path), !.force = force,
                    !.existed = server_name \in DOMAIN mcpServers]
    IN IF ~yml_ok
       THEN /\ inst' = Some(NoInstall("install", None, 1))
            /\ UNCHANGED mcp_config
       ELSE IF server_name \in DOMAIN mcpServers /\ ~force
       THEN /\ inst' = Some([call_ EXCEPT !.exit = 1])
            /\ UNCHANGED mcp_config
       ELSE /\ inst' = Some([call_ EXCEPT !.saved = TRUE])
            /\ mcp_config' = save_mcp_config(dict_set(mcpServers, server_name, "p1"), path)

\* uninstall_server(server_name, config_location, force): the entry is deleted
\* and the file saved when the file exists, holds the entry, and the user
\* agreed
uninstall_server(server_name, config_location, force, confirm) ==
    LET found == IF config_location = "auto" THEN find_existing_mcp_config
                 ELSE Some(config_location)
    IN IF found = None \/ mcp_config[found[1]] = None
       THEN /\ inst' = Some(NoInstall("uninstall", Some(server_name), 1))
            /\ UNCHANGED mcp_config
       ELSE LET path == found[1]
                mcpServers == load_mcp_config(path)
                call_ == [NoInstall("uninstall", Some(server_name), 1) EXCEPT
                            !.path = Some(path), !.force = force,
                            !.existed = server_name \in DOMAIN mcpServers]
            IN IF server_name \notin DOMAIN mcpServers \/ (~force /\ ~confirm)
               THEN /\ inst' = Some(call_)
                    /\ UNCHANGED mcp_config
               ELSE /\ inst' = Some([call_ EXCEPT !.saved = TRUE, !.exit = 0])
                    /\ mcp_config' = save_mcp_config(dict_del(mcpServers, server_name), path)

ConfigLocations == {"auto"} \cup SeqToSet(Locations)

install(name, yml_ok, config_location, force) ==
    /\ install_server(name, yml_ok, config_location, force)
    /\ UNCHANGED <<genVars, lint, tv, registry, answer>>
    /\ UNCHANGED <<coreVars, docVars, rt, envVars, resVars>>

uninstall(server_name, config_location, force, confirm) ==
    /\ uninstall_server(server_name, config_location, force, confirm)
    /\ UNCHANGED <<genVars, lint, tv, registry, answer>>
    /\ UNCHANGED <<coreVars, docVars, rt, envVars, resVars>>

InitInst ==
    /\ PriorIdle /\ GenIdle /\ LintIdle /\ TvIdle /\ RegIdle /\ AnswerIdle
    /\ mcp_config \in [SeqToSet(Locations) -> McpFiles]
    /\ inst = None
NextInst ==
    \/ \E name \in YmlNames, yml_ok \in BOOLEAN, l \in ConfigLocations, force \in BOOLEAN :
          install(name, yml_ok, l, force)
    \/ \E k \in StoredKeys, l \in ConfigLocations, force \in BOOLEAN, confirm \in BOOLEAN :
          uninstall(k, l, force, confirm)
SpecInst == InitInst /\ [][NextInst]_vars

\* ==================================================== handler registration
\* tool names as a configuration gives them: the keys of the tools dict
NameChars == {"A", "a", "-", "_"}
ToolNameTexts == UNION {[1..n -> NameChars] : n \in 1..2}

\* the tools of an accepted configuration, in dict order: the keys are
\* distinct, and nothing else is required of them
ToolDicts ==
    {l \in SeqsUpTo(ToolNameTexts, 2) : l # << >> /\ ~HasDuplicates(l)}

\* func_name = tool_name.lower().replace('-', '_')
func_name(tool_name) ==
    [i \in 1..Len(tool_name) |-> IF tool_name[i] = "-" THEN "_" ELSE lower(tool_name[i])]

\* what the FastMCP in use does with a second handler of a name it has
DuplicateBehaviors == {"replace", "ignore"}

\* mcp.tool()(tool_func) for every tool in turn (in the emitted module:
\* `@mcp.tool() def <func_name>`): the handler is kept under its function
\* name; of two handlers of one name only one is kept
RECURSIVE register_tools(_, _, _)
register_tools(handlers, tools, on_duplicate) ==
    IF tools = << >> THEN handlers
    ELSE LET f == func_name(Head(tools))
         IN register_tools(IF f \in DOMAIN handlers /\ on_duplicate = "ignore"
                           THEN handlers
                           ELSE dict_set(handlers, f, Head(tools)),
                           Tail(tools), on_duplicate)

\* MCPRunner(config) / the import of the emitted module registers the tools
RegisterAll(tools, on_duplicate) ==
    /\ registry' = Some([tools |-> tools,
                         handlers |-> register_tools(<< >>, tools, on_duplicate)])
    /\ UNCHANGED <<genVars, lint, tv, instVars, answer>>
    /\ UNCHANGED <<coreVars, docVars, rt, envVars, resVars>>

InitReg == PriorIdle /\ CliIdle
NextReg == \E tools \in ToolDicts, d \in DuplicateBehaviors : RegisterAll(tools, d)
SpecReg == InitReg /\ [][NextReg]_vars

\* ================================================================== claims
\* ---- C1 (as claimed): for the same tool and the same call, the emitted
\* handler and the runner's handler accept the same arguments, render the same
\* command and return the same result.
C1_HandlersAgree ==
    (call # None /\ \A m \in Modes : Finished(m)) =>
        /\ h["generated"].pc = h["runner"].pc
        /\ h["generated"].cmd = h["runner"].cmd
        /\ h["generated"].result = h["runner"].result

PatternMismatch(m) ==
    /\ h[m].bound # None
    /\ \E i \in 1..Len(tool[1].args) :
          LET a == tool[1].args[i]
          IN a.pattern # None /\ ~re_match(a.pattern[1], str(h[m].bound[1][a.name]))

C3_PatternFailsBeforeRender ==
    \A m \in Modes :
        PatternMismatch(m) =>
            /\ h[m].renders = 0 /\ h[m].execs = 0
            /\ h[m].pc = "done" => h[m].caught

\* ---- C4 (as claimed): a value outside the choices of an argument gives a
\* failure that names the value and the allowed set, with exit code -1 and no
\* subprocess.
OutsideChoices(m) ==
    {i \in 1..Len(tool[1].args) :
        LET a == tool[1].args[i]
        IN /\ a.choices # None
           /\ h[m].bound[1][a.name] # None
           /\ h[m].bound[1][a.name][1] \notin SeqToSet(a.choices[1])}

C4_ChoiceFailureNamesValue ==
    \A m \in Modes :
        h[m].pc = "done" =>
            \A i \in OutsideChoices(m) :
                LET a == tool[1].args[i]
                    r == h[m].result[1]
                IN /\ ~r.success /\ r.returncode = -1
                   /\ h[m].execs = 0
                   /\ SeqToSet(a.choices[1]) \subseteq SeqToSet(r.stderr.shows)
                   /\ h[m].bound[1][a.name][1] \in SeqToSet(r.stderr.shows)

\* ---- C5 (as claimed): the list get_resolved_arguments returns has every
\* argument without a default before every argument with a default.
DefaultlessFirst(l) ==
    \A i, j \in 1..Len(l) : (i < j /\ l[i].default # None) => l[j].default # None

C5_ResolvedDefaultlessFirst ==
    \A t \in ToolNames :
        (last[t] # None /\ ~last[t][1].raised) => DefaultlessFirst(last[t][1].list)

\* ---- C6: resolving returns one entry per declared argument; an argument with
\* a ref takes its own name and the referenced definition's help, type,
\* default, choices and pattern and has no ref left; an argument without a ref
\* is returned as declared.
Declared(t) ==
    IF t \in DOMAIN config[1].tools[1] /\ HasArgs(config[1].tools[1][t])
    THEN config[1].tools[1][t].args[1] ELSE << >>

UndefinedRefs(data) ==
    IF data.tools = None THEN {}
    ELSE LET tools == data.tools[1]
             refs(n) == IF tools[n].args = None THEN {}
                        ELSE {tools[n].args[1][i].ref : i \in 1..Len(tools[n].args[1])}
         IN {p \in (DOMAIN tools) \X RefNames :
                /\ Some(p[2]) \in refs(p[1])
                /\ (data.args = None \/ p[2] \notin DOMAIN data.args[1])}

C8_UndefinedRefNamed ==
    load.data # None =>
        \A p \in UndefinedRefs(load.data[1]) :
            /\ ~load.ok
            /\ \E i \in 1..Len(load.errors) : {p[1], p[2]} \subseteq NamedBy(load.errors[i])

\* ---- C9 (as claimed): ref together with a supplied type, default, choices or
\* pattern is rejected with an error naming that field.
C9_RefConflictNamesField ==
    \A f \in {"type", "default", "choices", "pattern"} :
        (ta.raw # None /\ ta.raw[1].ref # None /\ ta.raw[1][f] # None) =>
            /\ ~ta.ok
            /\ \E i \in 1..Len(ta.errors) : f \in NamedBy(ta.errors[i])

\* ---- C10 (as claimed): name, help and ref alone are accepted; ref is kept
\* and type reads "string".
RefOnly(raw) ==
    /\ raw.name # None /\ raw.help # None /\ raw.ref # None
    /\ raw.type = None /\ raw.default = None /\ raw.choices = None /\ raw.pattern = None

C10_RefOnlyAccepted ==
    (ta.raw # None /\ RefOnly(ta.raw[1])) =>
        /\ ta.ok
        /\ ta.obj[1].ref = ta.raw[1].ref
        /\ ta.obj[1].type = "string"

\* ---- C11: a configuration in which a tool declares two arguments with the
\* same name is rejected when it is loaded, and in every configuration the
\* parser holds the argument names of each tool are pairwise distinct.
RawDuplicates(data) ==
    IF data.tools = None THEN {}
    ELSE {n \in DOMAIN data.tools[1] :
             /\ data.tools[1][n].args # None
             /\ HasDuplicates([i \in 1..Len(data.tools[1][n].args[1]) |->
                                  data.tools[1][n].args[1][i].name])}

C11_UniqueArgumentNames ==
    /\ (load.data # None /\ RawDuplicates(load.data[1]) # {}) => ~load.ok
    /\ (parser_config # None /\ parser_config[1].tools # None) =>
           \A n \in DOMAIN parser_config[1].tools[1] :
               HasArgs(parser_config[1].tools[1][n]) =>
                   ~HasDuplicates(NamesOf(parser_config[1].tools[1][n].args[1]))

\* a configuration was accepted, and then one whose only fault is a repeated
\* argument name was rejected by validate_unique_names
C11_Witness ==
    /\ parser_config # None /\ load.data # None /\ ~load.ok
    /\ RawDuplicates(load.data[1]) # {}
    /\ Len(load.errors) = 1
    /\ load.errors[1].msg = "Argument names must be unique within tool"

\* ---- C12: a resource or prompt with no content source, or with two or more
\* of command, file path and literal text, gets an error diagnostic, makes the
\* compilation fail, and no handler is registered for it.
BadEntries(data) ==
    {p \in Sections \X {"r1", "p1"} :
        /\ data[p[1]] # None
        /\ p[2] \in DOMAIN data[p[1]][1]
        /\ Len(content_sources(p[1], data[p[1]][1][p[2]])) # 1}

Succeeds(i) ==
    LET o == subprocess_run(rt.script[i], rt.timeout) IN o.kind = "exit" /\ o.code = 0

\* the executions the script fails before its first success
FailuresBeforeSuccess ==
    IF \E i \in 1..Len(rt.script) : Succeeds(i)
    THEN Some((CHOOSE i \in 1..Len(rt.script) :
                  Succeeds(i) /\ \A j \in 1..(i - 1) : ~Succeeds(j)) - 1)
    ELSE None

C13_SuccessAfterKFailures ==
    (rt.execs > 0 /\ FailuresBeforeSuccess # None) =>
        LET k == FailuresBeforeSuccess[1]
        IN /\ rt.execs <= k + 1
           /\ \A i \in 1..(Len(rt.results) - 1) : ~rt.results[i][1].success
           /\ rt.pc = "done" =>
                 /\ rt.execs = k + 1
                 /\ rt.result[1].success
                 /\ rt.result = rt.results[k + 1]

\* the command failed twice and the third execution's success was returned
C13_Witness ==
    /\ rt.pc = "done" /\ rt.max_retries = 2 /\ rt.execs = 3 /\ rt.sleeps = 2
    /\ rt.result # None /\ rt.result[1].success

\* ---- C14: when the command fails on every attempt it is executed exactly
\* max_retries + 1 times and the handler returns the result of the last
\* attempt; the command is never executed more than max_retries + 1 times and
\* a handler in the loop always returns.
C14_Safety ==
    /\ rt.execs <= rt.max_retries + 1
    /\ (rt.pc = "done" /\ rt.script # << >> /\ rt.results # << >> /\ FailuresBeforeSuccess = None) =>
           /\ rt.execs = rt.max_retries + 1
           /\ rt.result = rt.results[rt.max_retries + 1]
           /\ ~rt.result[1].success

C14_ExhaustedRetries == []C14_Safety /\ [](rt.pc \in {"loop", "sleep"} => <>(rt.pc = "done"))

\* every attempt failed, each in another way, and the last failure was returned
C14_Witness ==
    /\ rt.pc = "done" /\ rt.max_retries = 2 /\ rt.execs = 3
    /\ subprocess_run(rt.script[1], rt.timeout).kind = "exit"
    /\ subprocess_run(rt.script[2], rt.timeout).kind = "oserror"
    /\ subprocess_run(rt.script[3], rt.timeout).kind = "timeout"
    /\ rt.result = rt.results[3] /\ rt.result[1].returncode = -1

\* ---- C15: an execution of a command that runs longer than its timeout gives
\* a result with success = false and exit code -1, for every timeout; it does
\* not raise.
TimedOut(i) == subprocess_run(rt.script[i], rt.timeout).kind = "timeout"

C15_TimeoutIsFailureResult ==
    \A i \in 1..Len(rt.results) :
        TimedOut(i) =>
            /\ rt.results[i] # None
            /\ ~rt.results[i][1].success
            /\ rt.results[i][1].returncode = -1

\* a command that would have exited with 0 ran past the shorter timeout and
\* was retried
C15_Witness ==
    /\ rt.timeout = 1 /\ rt.execs = 2
    /\ rt.script[1] = [kind |-> "run", dur |-> 2, code |-> 0]
    /\ rt.results[1] # None /\ rt.results[1][1].returncode = -1

\* ---- C16: under any interleaving of invocations the environment a command
\* is started with is the process environment, as copied for that call,
\* overlaid with the overrides of its own tool (the override wins); a step of
\* an invocation changes neither the process environment nor a configured env
\* map.
GivenIsOwnOverlay ==
    \A t \in Threads :
        inv[t].given # None =>
            LET own == servers[inv[t].server[1]].tool_env
                env == inv[t].given[1]
            IN /\ DOMAIN env = DOMAIN inv[t].seen \cup DOMAIN own
               /\ \A k \in DOMAIN env :
                     env[k] = IF k \in DOMAIN own THEN own[k] ELSE inv[t].seen[k]

C16_EnvCopiedPerCall ==
    [][/\ GivenIsOwnOverlay'
       /\ inv' # inv => (environ' = environ /\ servers' = servers)]_vars

\* two invocations of tools with different overrides of PATH and KEY are in
\* flight, one already started with its overlay
C16_Witness ==
    /\ inv["T1"].pc = "done" /\ inv["T2"].pc \in {"update", "run"}
    /\ inv["T1"].server # inv["T2"].server
    /\ servers[inv["T1"].server[1]].tool_env = [k \in {"PATH"} |-> "q"]
    /\ servers[inv["T2"].server[1]].tool_env = [k \in {"KEY"} |-> "v"]
    /\ inv["T1"].given[1]["PATH"] = "q"

\* ---- C17 (as claimed): building a server leaves the process environment as
\* it was, and a command of one server is not started with the server-level
\* variables of another server.
C17_ServerEnvNotShared ==
    /\ environ = ProcessEnv
    /\ \A t \in Threads :
          inv[t].given # None =>
              \A s \in ServerNames \ {inv[t].server[1]} :
                  \A k \in DOMAIN servers[s].env \cap DOMAIN inv[t].given[1] :
                      inv[t].given[1][k] # servers[s].env[k]
                      \/ k \in DOMAIN servers[inv[t].server[1]].env
                      \/ k \in DOMAIN servers[inv[t].server[1]].tool_env

\* ---- C18 (as claimed): every value a tool handler returns is a record with
\* exactly the fields success, stdout, stderr and exit_code.
C18_ResultHasExitCode ==
    \A m \in Modes :
        (h[m].pc = "done" /\ h[m].result # None) =>
            DOMAIN h[m].result[1] = {"success", "stdout", "stderr", "exit_code"}

\* ---- C18 (amended): every value a tool handler returns, for a command that
\* exited with or without success, timed out or could not be started, and for
\* a failure of the handler itself, is a record with exactly the fields
\* success, stdout, stderr and returncode.
C18_ResultHasReturncode ==
    \A m \in Modes :
        (h[m].pc = "done" /\ h[m].result # None) =>
            /\ DOMAIN h[m].result[1] = {"success", "stdout", "stderr", "returncode"}
            /\ h[m].result[1].success \in BOOLEAN
            /\ h[m].result[1].returncode \in Int

\* the runner's handler returned the result of a command that timed out, the
\* emitted handler its own failure
C18_Witness ==
    /\ call # None /\ call[1].outcome.kind = "timeout"
    /\ h["runner"].pc = "done" /\ ~h["runner"].caught /\ h["runner"].execs = 1
    /\ h["generated"].pc = "done" /\ h["generated"].caught

\* ---- C19 (as claimed): an argument with a default that the call omits is
\* bound to the default, and the default is what is validated and rendered: a
\* tool whose only omitted arguments have defaults that pass validation
\* renders its command with them and executes it.
Omitted == {n \in SeqToSet(NamesOf(tool[1].args)) : n \notin DOMAIN call[1].supplied}

WithDefaults ==
    [n \in SeqToSet(NamesOf(tool[1].args)) |->
        IF n \in DOMAIN call[1].supplied THEN call[1].supplied[n]
        ELSE ArgNamed(tool[1].args, n).default]

DefaultsApply ==
    /\ call # None /\ Omitted # {} /\ tool[1].cmd.ok
    /\ \A n \in Omitted : HasDefault(ArgNamed(tool[1].args, n))
    /\ \A n \in DOMAIN call[1].supplied : call[1].supplied[n] # None
    /\ GeneratedValidation(tool[1].args, WithDefaults) = None

C19_OmittedArgumentTakesDefault ==
    DefaultsApply =>
        \A m \in Modes :
            /\ h[m].pc # "rejected"
            /\ h[m].bound = Some(WithDefaults)
            /\ h[m].pc = "done" =>
                  /\ h[m].renders = 1 /\ h[m].execs = 1
                  /\ h[m].cmd = Some(RenderParts(tool[1].cmd.parts, WithDefaults))

\* ---- C20 (as claimed): a resource whose content source is literal text
\* returns exactly the text rendered against its arguments, the defaults
\* standing in for omitted arguments, and executes no process and reads no
\* file.
ResourceDefaults ==
    [n \in SeqToSet(NamesOf(resource[1].args)) |->
        IF n \in DOMAIN rcall[1].supplied THEN rcall[1].supplied[n]
        ELSE ArgNamed(resource[1].args, n).default]

LiteralTextRead ==
    /\ rcall # None /\ resource[1].source = "text" /\ resource[1].content.ok
    /\ \A n \in SeqToSet(NamesOf(resource[1].args)) :
          n \in DOMAIN rcall[1].supplied \/ HasDefault(ArgNamed(resource[1].args, n))
    /\ ResourceValidation(resource[1].args, ResourceDefaults) = None

C20_LiteralTextIsRendered ==
    LiteralTextRead =>
        \A m \in Modes :
            /\ ~rh[1][m].rejected /\ rh[1][m].raised = None
            /\ rh[1][m].content = Some(RenderParts(resource[1].content.parts, ResourceDefaults))
            /\ rh[1][m].execs = 0 /\ rh[1][m].reads = 0

\* ---- C21: a resource or prompt backed by a command returns exactly the
\* stdout of the command when it exits with 0; when the command exits non-zero,
\* runs past the timeout or cannot be started, the handler raises
\* "Error in <name>: Command failed ..." and returns no content.
CommandRan(m) ==
    /\ rh # None /\ resource[1].source = "cmd" /\ rh[1][m].execs = 1

RanCommand(m) ==
    render_template(resource[1].content,
                    Bind(m, resource[1].args, rcall[1].supplied)[1]).text

C21_CommandContentIsStdout ==
    \A m \in Modes :
        CommandRan(m) =>
            LET result == execute_command(RanCommand(m), rcall[1].outcome)
            IN IF rcall[1].outcome = [kind |-> "exit", code |-> 0]
               THEN /\ rh[1][m].raised = None
                    /\ rh[1][m].content = Some(result.stdout)
               ELSE /\ rh[1][m].content = None
                    /\ rh[1][m].raised # None
                    /\ rh[1][m].raised[1].prefix = Some(resource[1].name)
                    /\ rh[1][m].raised[1].text = "Command failed"

\* a prompt's command has timed out in the runner's handler, with a command
\* rendered from an argument
C21_Witness ==
    /\ CommandRan("runner") /\ resource[1].kind = "prompt"
    /\ rcall[1].outcome.kind = "timeout"
    /\ Len(RanCommand("runner")) > 1
    /\ rh[1]["runner"].raised # None

\* ---- C22: a `generate` run on a configuration that fails validation (an
\* undefined reference included) exits with 1 and leaves the output directory
\* and the server, requirements and README files as they were: nothing is
\* created or rewritten.
GenerateRan == gen'.n # gen.n

C22_NoPartialOutput ==
    [][(GenerateRan /\ gen'.data # None /\ ~YMLConfig(gen'.data[1]).ok)
          => (fs' = fs /\ gen'.exit = Some(1))]_vars

\* the first run, on a configuration with an undefined reference, has left
\* nothing
C22_Witness ==
    /\ gen.n = 1 /\ gen.data # None /\ UndefinedRefs(gen.data[1]) # {}
    /\ gen.exit = Some(1) /\ fs = << >>

\* ---- C23: when the validation of an argument or the render of the command
\* fails in a tool with retries, the failure is what the handler returns, at
\* once: the command is never executed, the handler never sleeps, and the
\* validation and the render are done at most once.
FailedBeforeCommand ==
    /\ rt.args # None /\ rt.args[1].deps_found
    /\ ~re_match(PatA, rt.args[1].database) \/ ~rt.args[1].template.ok

C23_ValidationNotRetried ==
    /\ rt.validates <= 1 /\ rt.renders <= 1
    /\ FailedBeforeCommand =>
          /\ rt.pc = "done"
          /\ rt.execs = 0 /\ rt.sleeps = 0 /\ rt.attempt = 0
          /\ rt.result # None
          /\ ~rt.result[1].success /\ rt.result[1].returncode = -1
          /\ rt.result[1].stderr.prefix = Some("DatabaseBackup")
          /\ rt.result[1].stderr.text \in {"Invalid: must match pattern",
                                            "Template rendering error"}

\* the render has failed in a tool with the most retries
C23_Witness ==
    /\ FailedBeforeCommand /\ rt.max_retries = MaxRetries /\ rt.renders = 1
    /\ rt.result[1].stderr.text = "Template rendering error"

\* ---- C25 (as claimed): for a template of N distinct interpolations and no
\* control construct, get_template_variables returns exactly those N names,
\* each once.
Interpolations(cmd) ==
    {cmd.parts[i].v[1] : i \in {j \in 1..Len(cmd.parts) : cmd.parts[j].kind = "var"}}

C25_ExtractsInterpolations ==
    (tv # None /\ tv[1].tool_name = "t1" /\ tv[1].cmd.ok) =>
        /\ SeqToSet(tv[1].variables) = Interpolations(tv[1].cmd)
        /\ Len(tv[1].variables) = Cardinality(Interpolations(tv[1].cmd))

\* ---- C24 (as claimed): the consistency report of `validate` lists, per tool,
\* exactly the template variables of its command that are neither one of its
\* resolved arguments nor 'now'; a tool without such a variable is not in the
\* report; and the run exits with 0 whatever the report holds.
Unbound(c, t) ==
    LET declared == IF HasArgs(c.tools[1][t]) THEN c.tools[1][t].args[1] ELSE << >>
    IN IF c.tools[1][t].cmd.ok
       THEN Interpolations(c.tools[1][t].cmd) \ (SeqToSet(NamesOf(declared)) \cup {"now"})
       ELSE {}

C24_ReportListsUnboundVariables ==
    (lint # None /\ lint[1].report # None) =>
        LET c == lint[1].config[1]
            report == lint[1].report[1]
        IN /\ lint[1].exit = 0
           /\ DOMAIN report = {t \in DOMAIN c.tools[1] : Unbound(c, t) # {}}
           /\ \A t \in DOMAIN report : SeqToSet(report[t]) = Unbound(c, t)

\* ---- C26: install_server without force, for a server whose normalized name
\* is a key of the mcpServers it loaded, returns 1 and saves nothing: every
\* configuration file is as it was.
InstallOfExisting ==
    /\ inst' # None /\ inst'[1].op = "install" /\ inst'[1].path # None
    /\ ~inst'[1].force
    /\ mcp_config[inst'[1].path[1]] # None
    /\ mcp_config[inst'[1].path[1]][1].parses
    /\ inst'[1].key[1] \in DOMAIN mcp_config[inst'[1].path[1]][1].servers

C26_ExistingNotOverwritten ==
    [][(inst' # inst /\ InstallOfExisting)
          => (inst'[1].exit = 1 /\ ~inst'[1].saved /\ mcp_config' = mcp_config)]_vars

\* an install without force has met its entry, stored by an earlier install
\* under the normalized name, and has returned 1
C26_Witness ==
    /\ inst # None /\ inst[1].op = "install" /\ ~inst[1].force
    /\ inst[1].existed /\ inst[1].exit = 1
    /\ inst[1].key = Some(<<"b", "-">>)
    /\ mcp_config[inst[1].path[1]][1].servers[inst[1].key[1]] = "p1"

\* ---- C29 (as claimed): an install or uninstall changes no entry but that of
\* the server it names: every other entry a configuration file held is still
\* in the file, unchanged.
ServersIn(file) == IF file = None THEN << >> ELSE file[1].servers

C29_OtherEntriesKept ==
    [][\A l \in SeqToSet(Locations) :
          \A k \in DOMAIN ServersIn(mcp_config[l]) :
              (inst' # None /\ Some(k) # inst'[1].key) =>
                  /\ k \in DOMAIN ServersIn(mcp_config'[l])
                  /\ ServersIn(mcp_config'[l])[k] = ServersIn(mcp_config[l])[k]]_vars

\* ---- C27 (as claimed): the tools of an accepted configuration, which have
\* distinct names, get distinct handlers: there are as many registered
\* handlers as tools, and every tool is the one some handler runs.
C27_HandlersDistinct ==
    registry # None =>
        LET tools == registry[1].tools
            handlers == registry[1].handlers
        IN /\ Cardinality(DOMAIN handlers) = Len(tools)
           /\ \A i \in 1..Len(tools) : \E f \in DOMAIN handlers : handlers[f] = tools[i]

\* ---- C28 (as claimed): a load that fails raises ValueError and leaves
\* parser.config as it was, a load that succeeds makes its configuration
\* parser.config, and a query method answers from parser.config, with an empty
\* result when there is none.
LoadStep == load'.n # load.n

ConfigFollowsLoads ==
    LoadStep =>
        IF load'.ok
        THEN parser_config' = YMLConfig(load'.data[1]).obj /\ load'.raised = None
        ELSE parser_config' = parser_config /\ load'.raised # None

QueriesFollowConfig ==
    (answer' # answer /\ answer' # None) =>
        /\ parser_config' = parser_config
        /\ parser_config = None =>
              answer'[1].info = << >> /\ answer'[1].arguments = << >>
        /\ (parser_config # None /\ answer'[1].method = "get_server_info") =>
              /\ answer'[1].info.tools_count =
                    IF parser_config[1].tools = None THEN 0
                    ELSE Cardinality(DOMAIN parser_config[1].tools[1])
              /\ answer'[1].info.reusable_args_count =
                    IF parser_config[1].args = None THEN 0
                    ELSE Cardinality(DOMAIN parser_config[1].args[1])
        /\ (parser_config # None /\ answer'[1].method = "get_resolved_tool_arguments") =>
              answer'[1].arguments =
                  ResolvedArguments(parser_config[1], answer'[1].tool_name).list

C28_FailedLoadRaisesValueError ==
    [][/\ ConfigFollowsLoads
       /\ QueriesFollowConfig
       /\ (LoadStep /\ ~load'.ok) => load'.raised = Some("ValueError")]_vars

\* ---- C28 (amended): as above, but the exception of a failing load is
\* ValueError only when the data fails validation; load_from_file raises
\* FileNotFoundError for a missing file, and a text that is not YAML raises the
\* error of the YAML library.
C28_FailedLoadKeepsConfig ==
    [][/\ ConfigFollowsLoads
       /\ QueriesFollowConfig
       /\ (LoadStep /\ ~load'.ok) =>
             IF load'.data # None THEN load'.raised = Some("ValueError")
             ELSE load'.raised \in {Some("FileNotFoundError"), Some("YAMLError")}]_vars

\* after a successful load, a load of invalid data has failed with ValueError
\* and a query has answered from the configuration of the first
C28_Witness ==
    /\ load.n = 2 /\ ~load.ok /\ load.raised = Some("ValueError")
    /\ parser_config # None
    /\ answer # None /\ answer[1].method = "get_resolved_tool_arguments"
    /\ answer[1].arguments # << >>

\* ---- C30: in every result of execute_command, success is true exactly when
\* the exit code is 0, the exit code of a command that ran to its end is the
\* one it exited with, and a timeout or a failure to start the command gives
\* success false, exit code -1 and an empty stdout.
Executed(m) == h[m].pc = "done" /\ h[m].execs = 1 /\ ~h[m].caught

C30_SuccessIffExitZero ==
    \A m \in Modes :
        Executed(m) =>
            LET result == h[m].result[1]
                outcome == call[1].outcome
            IN /\ result.success <=> result.returncode = 0
               /\ outcome.kind = "exit" => result.returncode = outcome.code
               /\ outcome.kind \in {"timeout", "oserror"} =>
                     /\ result.success = FALSE
                     /\ result.returncode = -1
                     /\ result.stdout = << >>

\* a command with a text of its own exited with a code other than 0
C30_Witness ==
    /\ call # None /\ call[1].outcome = [kind |-> "exit", code |-> 1]
    /\ Executed("runner") /\ h["runner"].cmd[1] # << >>
    /\ h["runner"].result[1].success = FALSE

====
